---- MODULE Spec2Model ----
(***************************************************************************)
(* Model of the trust boundary of mrcha033/accord:                         *)
(*   scripts/runtime_guard.py   FileScope / MCPGuard (capability guard)    *)
(*   mcp/client.py              MCPClient dispatch under the guard         *)
(*   scripts/provtools.py       statement engine, DSSE sign / verify       *)
(*   scripts/provtools_cache.py sha256_cached (hash cache)                 *)
(*                                                                         *)
(* Strings are sequences of one-character strings, a path is a sequence    *)
(* of names, and the file system maps absolute paths to directory          *)
(* entries; regular files own an inode whose content is a sequence of      *)
(* chunks, so that an open handle keeps writing to its inode after the     *)
(* entry has been renamed.                                                 *)
(***************************************************************************)
EXTENDS Integers, Sequences, FiniteSets, TLC

VARIABLES
    \* ---- file system (shared by the guard and the provenance tools)
    fs,        \* absolute path -> entry [kind, to, ino]
    data,      \* inode -> content (sequence of chunks)
    \* ---- capability guard: FileScope configuration and writers
    scopes,    \* FileScope.write_scopes: sequence of glob patterns
    pid,       \* os.getpid() of each writer thread
    pc,        \* position of each writer inside write_text
    req,       \* the path handed to write_text
    target,    \* the target returned by assert_write_allowed
    fd,        \* inode behind the handle open(tmp, "w") returned (0: none)
    off,       \* file offset of that handle, in chunks
    result,    \* outcome of the last call: "none", "ok" or the exception raised
    \* ---- MCPGuard and MCPClient
    allowed,   \* MCPGuard.allowed
    client,    \* MCPClient: _remote, _remote_active, _strict_remote, ...
    ran,       \* handler code that has run: <<endpoint, "remote" | "stub">>
    mcpLast,   \* the last call made through MCPClient.call and its outcome
    \* ---- hash cache (provtools_cache.py)
    mtimes,    \* inode -> st_mtime_ns
    clock,     \* the file system's clock
    cache,     \* _CACHE_LOADED, _CACHE_DATA of the running process
    store,     \* the persisted store .prov_cache.json
    hs,        \* a call of sha256_cached under way
    peer,      \* _CACHE_LOADED, _CACHE_DATA of a second process using the store
    \* ---- provenance tools (provtools.py)
    build,     \* the runs of cmd_build
    verdict,   \* what the last run of cmd_verify reported
    item,      \* the subject or material fill_and_check_digests is working on
    \* ---- pipeline (policy_synth_pipeline.py)
    pipe,      \* a call of run_pipeline
    \* ---- DSSE on the wire: pae, Ed25519 sign and verify over bytes
    wire       \* a typed payload, the bytes signed for it, and the last verify

guardVars == <<scopes, pid, pc, req, target, fd, off, result>>
fsVars == <<fs, data>>
mcpVars == <<allowed, client, ran, mcpLast>>
\* what the guarded writes leave alone
cacheVars == <<mtimes, clock, cache, store, hs>>
provVars == <<build, verdict, item>>
notGuardVars == <<mcpVars, cacheVars, peer, pipe, wire, provVars>>
\* what the MCP client leaves alone
notMcpVars == <<fsVars, guardVars, cacheVars, peer, pipe, wire, provVars>>
vars == <<fs, data, scopes, pid, pc, req, target, fd, off, result,
          allowed, client, ran, mcpLast, mtimes, clock, cache, store, hs, peer,
          build, verdict, item, pipe, wire>>

(***************************************************************************)
(* Bounds of the model.                                                    *)
(***************************************************************************)
\* chunks (write syscalls) one write_text call flushes
ContentLen == 2
\* symbolic links followed while resolving one path
SymlinkDepth == 3
\* inodes the model file system can hold
MaxIno == 6
\* the file system's clock stops here
MaxClock == 2

Threads == {1, 2}
Pids == {1, 2}

(***************************************************************************)
(* Strings and names.                                                      *)
(***************************************************************************)
Str1(a) == <<a>>
NameA == <<"a", ".", "m">>
DotDot == <<".", ".">>

Root == <<>>
BaseDir == <<Str1("b")>>
OutDir == <<Str1("o")>>

PidStr(p) == <<"1", "2", "3">>[p]

\* "/".join(parts)
RECURSIVE JoinSlash(_)
JoinSlash(parts) ==
    IF parts = <<>> THEN <<>>
    ELSE IF Len(parts) = 1 THEN parts[1]
    ELSE parts[1] \o <<"/">> \o JoinSlash(Tail(parts))

IsPrefix(p, q) == Len(p) <= Len(q) /\ SubSeq(q, 1, Len(p)) = p
Parent(p) == IF p = <<>> THEN <<>> ELSE SubSeq(p, 1, Len(p) - 1)
Last(p) == p[Len(p)]

(***************************************************************************)
(* File system.                                                            *)
(***************************************************************************)
DirEntry == [kind |-> "dir", to |-> <<>>, ino |-> 0]
LinkEntry(t) == [kind |-> "link", to |-> t, ino |-> 0]
FileEntry(i) == [kind |-> "file", to |-> <<>>, ino |-> i]

Exists(f, p) == p \in DOMAIN f
KindOf(f, p) == IF p \in DOMAIN f THEN f[p].kind ELSE "none"
IsDirAt(f, p) == p = Root \/ KindOf(f, p) = "dir"

\* os.path.realpath(path) (Path.resolve(strict=False)): symlinks are followed,
\* ".." pops the last resolved component, missing components are kept as written.
RECURSIVE RealpathFrom(_, _, _, _)
RealpathFrom(f, cur, rest, fuel) ==
    IF rest = <<>> THEN cur
    ELSE LET c == Head(rest)
             nxt == Append(cur, c)
         IN  IF c = DotDot THEN RealpathFrom(f, Parent(cur), Tail(rest), fuel)
             ELSE IF KindOf(f, nxt) = "link" /\ fuel > 0
                  THEN RealpathFrom(f, Root, f[nxt].to \o Tail(rest), fuel - 1)
                  ELSE RealpathFrom(f, nxt, Tail(rest), fuel)

Realpath(f, p) == RealpathFrom(f, Root, p, SymlinkDepth)

\* The kernel's path walk over directories: every component must exist and be a
\* directory (symlinks followed); anything else fails with ENOENT / ENOTDIR.
NoDir == <<<<"!">>>>
RECURSIVE WalkFrom(_, _, _, _)
WalkFrom(f, cur, rest, fuel) ==
    IF cur = NoDir \/ ~IsDirAt(f, cur) THEN NoDir
    ELSE IF rest = <<>> THEN cur
    ELSE LET c == Head(rest)
             nxt == Append(cur, c)
         IN  IF c = DotDot THEN WalkFrom(f, Parent(cur), Tail(rest), fuel)
             ELSE IF KindOf(f, nxt) = "link"
                  THEN IF fuel > 0
                       THEN WalkFrom(f, Root, f[nxt].to \o Tail(rest), fuel - 1)
                       ELSE NoDir
                  ELSE WalkFrom(f, nxt, Tail(rest), fuel)

Walk(f, p) == WalkFrom(f, Root, p, SymlinkDepth)

\* The directory entry a path names without following a final symlink (lstat,
\* rename, unlink): the parent is walked, the last component is not.
EntryPath(f, p) ==
    IF p = <<>> THEN Root
    ELSE LET d == Walk(f, Parent(p))
         IN  IF d = NoDir THEN NoDir
             ELSE IF Last(p) = DotDot THEN Parent(d)
             ELSE Append(d, Last(p))

\* Path.is_symlink(): lstat, False on any OSError
IsSymlink(f, p) ==
    LET e == EntryPath(f, p) IN e # NoDir /\ KindOf(f, e) = "link"

\* The entry a path names with every symlink followed (stat, open): NoDir when
\* a directory on the way is missing; the entry itself may still be absent.
FollowPath(f, p) ==
    IF p = <<>> THEN Root
    ELSE LET d == Walk(f, Parent(p))
         IN  IF d = NoDir THEN NoDir
             ELSE IF Last(p) = DotDot THEN Parent(d)
             ELSE LET e == Append(d, Last(p))
                  IN  IF KindOf(f, e) = "link"
                      THEN LET r == Realpath(f, e)
                           IN IF IsDirAt(f, Parent(r)) THEN r ELSE NoDir
                      ELSE e

\* Path.exists(): stat, symlinks followed
PathExists(f, p) ==
    LET e == FollowPath(f, p) IN e # NoDir /\ (e = Root \/ Exists(f, e))


(***************************************************************************)
(* FileScope: scope check.                                                 *)
(***************************************************************************)
\* fnmatch.fnmatch(name, pattern) over "*" | "?" | literal characters
RECURSIVE FnMatch(_, _)
FnMatch(s, p) ==
    IF p = <<>> THEN s = <<>>
    ELSE IF Head(p) = "*"
         THEN FnMatch(s, Tail(p)) \/ (s # <<>> /\ FnMatch(Tail(s), p))
    ELSE IF Head(p) = "?"
         THEN s # <<>> /\ FnMatch(Tail(s), Tail(p))
    ELSE s # <<>> /\ Head(s) = Head(p) /\ FnMatch(Tail(s), Tail(p))

\* str(target.relative_to(base_dir))
RelString(t) ==
    IF t = BaseDir THEN <<".">>
    ELSE JoinSlash(SubSeq(t, Len(BaseDir) + 1, Len(t)))

InBase(t) == IsPrefix(BaseDir, t)

\* str(path).startswith("~")
StartsWithTilde(r) ==
    ~r.abs /\ r.parts # <<>> /\ Head(r.parts) # <<>> /\ Head(Head(r.parts)) = "~"

\* the walk of lines 59-65: current, current.parent, ... up to base_dir
WalkHasSymlink(f, t) ==
    \E k \in Len(BaseDir)..Len(t) : IsSymlink(f, SubSeq(t, 1, k))

Raised(e) == [ok |-> FALSE, target |-> <<>>, err |-> e]
Accepted(t) == [ok |-> TRUE, target |-> t, err |-> "none"]

\* _normalize_target with the relative_to(base_dir) test left out
NormalizeTargetNoEscapeTest(f, r) ==
    IF StartsWithTilde(r) THEN Raised("ScopeError")
    ELSE IF r.abs THEN Raised("ScopeError")
    ELSE LET candidate == BaseDir \o r.parts
             resolved == Realpath(f, candidate)
         IN  IF IsSymlink(f, candidate) THEN Raised("ScopeError")
             ELSE IF IsSymlink(f, resolved) THEN Raised("ScopeError")
             ELSE Accepted(resolved)

\* _normalize_target (lines 43-66)
NormalizeTarget(f, r) ==
    IF StartsWithTilde(r) THEN Raised("ScopeError")
    ELSE IF r.abs THEN Raised("ScopeError")
    ELSE LET candidate == BaseDir \o r.parts
             resolved == Realpath(f, candidate)
         IN  IF IsSymlink(f, candidate) THEN Raised("ScopeError")
             ELSE IF IsSymlink(f, resolved) THEN Raised("ScopeError")
             ELSE IF ~InBase(resolved) THEN Raised("ScopeError")
             ELSE IF WalkHasSymlink(f, resolved) THEN Raised("ScopeError")
             ELSE Accepted(resolved)

\* _match_scopes (lines 68-70); relative_to raises ValueError outside base_dir
MatchScopes(sc, t) ==
    \E i \in 1..Len(sc) : FnMatch(RelString(t), sc[i])

\* assert_write_allowed with the _match_scopes test left out
AssertWriteAllowedNoScopes(f, sc, r) == NormalizeTarget(f, r)

\* assert_write_allowed (lines 72-76)
AssertWriteAllowed(f, sc, r) ==
    LET n == NormalizeTarget(f, r)
    IN  IF ~n.ok THEN n
        ELSE IF ~InBase(n.target) THEN Raised("ValueError")
        ELSE IF ~MatchScopes(sc, n.target) THEN Raised("ScopeError")
        ELSE n

(***************************************************************************)
(* FileScope: the write itself (open_write / _Atomic.__exit__).            *)
(***************************************************************************)
Fail == [failed |-> TRUE]

\* target.parent.mkdir(parents=True, exist_ok=True)
RECURSIVE MkdirP(_, _)
MkdirP(f, p) ==
    IF p = Root \/ Walk(f, p) # NoDir THEN f
    ELSE LET e == EntryPath(f, p)
         IN  IF e # NoDir /\ Exists(f, e) THEN Fail
             ELSE LET f1 == MkdirP(f, Parent(p))
                  IN  IF f1 = Fail THEN Fail
                      ELSE LET d == Walk(f1, Parent(p))
                           IN  IF d = NoDir THEN Fail
                               ELSE (Append(d, Last(p)) :> DirEntry) @@ f1

\* target.with_suffix(target.suffix + f".{os.getpid()}.tmp")
TmpPath(t, p) ==
    Append(Parent(t), Last(t) \o <<".">> \o PidStr(p) \o <<".", "t", "m", "p">>)

InodesUsed(f, fds) ==
    {f[p].ino : p \in {q \in DOMAIN f : f[q].kind = "file"}} \cup (fds \ {0})
FreeInodes(f, fds) == (1..MaxIno) \ InodesUsed(f, fds)
NewIno(f, fds) == CHOOSE i \in FreeInodes(f, fds) : \A j \in FreeInodes(f, fds) : i <= j
Collect(d, f, fds) == [i \in InodesUsed(f, fds) |-> d[i]]

Chunk(t) == <<"w1", "w2">>[t]
Complete(t) == [i \in 1..ContentLen |-> Chunk(t)]
OldContent == [i \in 1..ContentLen |-> "old"]

\* a write(2) of one chunk at offset o: a gap left by a truncation reads as NULs
WriteAt(c, o, x) ==
    [i \in 1..(IF Len(c) >= o + 1 THEN Len(c) ELSE o + 1) |->
        IF i = o + 1 THEN x ELSE IF i <= Len(c) THEN c[i] ELSE "nul"]

Without(f, ps) == [q \in DOMAIN f \ ps |-> f[q]]
Fds == {fd[t] : t \in Threads} \cup {hs.fd} \cup {build[b].fd : b \in {1, 2}}

Quiet == \A t \in Threads : pc[t] = "idle"

\* write_text with the parent directories made before the scope check
CallMkdirFirst(t, r) ==
    /\ pc[t] = "idle"
    /\ LET a == AssertWriteAllowed(fs, scopes, r)
           made == IF r.abs THEN fs ELSE MkdirP(fs, Parent(BaseDir \o r.parts))
       IN  /\ req' = [req EXCEPT ![t] = r]
           /\ fs' = IF made = Fail THEN fs ELSE made
           /\ IF a.ok
              THEN /\ pc' = [pc EXCEPT ![t] = "mkdir"]
                   /\ target' = [target EXCEPT ![t] = a.target]
                   /\ result' = [result EXCEPT ![t] = "none"]
              ELSE /\ pc' = pc
                   /\ target' = [target EXCEPT ![t] = <<>>]
                   /\ result' = [result EXCEPT ![t] = a.err]
    /\ UNCHANGED <<data, scopes, pid, fd, off, notGuardVars>>

\* write_text(path, text) is entered: open_write runs assert_write_allowed
Call(t, r) ==
    /\ pc[t] = "idle"
    /\ LET a == AssertWriteAllowed(fs, scopes, r)
       IN  /\ req' = [req EXCEPT ![t] = r]
           /\ IF a.ok
              THEN /\ pc' = [pc EXCEPT ![t] = "mkdir"]
                   /\ target' = [target EXCEPT ![t] = a.target]
                   /\ result' = [result EXCEPT ![t] = "none"]
              ELSE /\ pc' = pc
                   /\ target' = [target EXCEPT ![t] = <<>>]
                   /\ result' = [result EXCEPT ![t] = a.err]
    /\ UNCHANGED <<fs, data, scopes, pid, fd, off, notGuardVars>>

Mkdir(t) ==
    /\ pc[t] = "mkdir"
    /\ LET f1 == MkdirP(fs, Parent(target[t]))
       IN  IF f1 = Fail
           THEN /\ pc' = [pc EXCEPT ![t] = "idle"]
                /\ result' = [result EXCEPT ![t] = "OSError"]
                /\ fs' = fs
           ELSE /\ pc' = [pc EXCEPT ![t] = "open"]
                /\ result' = result
                /\ fs' = f1
    /\ UNCHANGED <<data, scopes, pid, req, target, fd, off, notGuardVars>>

\* handle = open(tmp, "w"): O_WRONLY | O_CREAT | O_TRUNC, symlinks followed
Open(t) ==
    /\ pc[t] = "open"
    /\ LET tmp == TmpPath(target[t], pid[t])
           e == FollowPath(fs, tmp)
       IN  IF e = NoDir \/ KindOf(fs, e) \in {"dir", "link"}
           THEN /\ pc' = [pc EXCEPT ![t] = "idle"]
                /\ result' = [result EXCEPT ![t] = "OSError"]
                /\ UNCHANGED <<fs, data, fd, off>>
           ELSE IF KindOf(fs, e) = "file"
           THEN /\ pc' = [pc EXCEPT ![t] = "write"]
                /\ fd' = [fd EXCEPT ![t] = fs[e].ino]
                /\ off' = [off EXCEPT ![t] = 0]
                /\ data' = [data EXCEPT ![fs[e].ino] = <<>>]
                /\ UNCHANGED <<fs, result>>
           ELSE /\ FreeInodes(fs, Fds) # {}
                /\ LET i == NewIno(fs, Fds)
                   IN  /\ fs' = (e :> FileEntry(i)) @@ fs
                       /\ data' = (i :> <<>>) @@ data
                       /\ fd' = [fd EXCEPT ![t] = i]
                /\ pc' = [pc EXCEPT ![t] = "write"]
                /\ off' = [off EXCEPT ![t] = 0]
                /\ result' = result
    /\ UNCHANGED <<scopes, pid, req, target, notGuardVars>>

\* handle.write(text): one write(2) per chunk
WriteChunk(t) ==
    /\ pc[t] = "write"
    /\ off[t] < ContentLen
    /\ data' = [data EXCEPT ![fd[t]] = WriteAt(@, off[t], Chunk(t))]
    /\ off' = [off EXCEPT ![t] = @ + 1]
    /\ UNCHANGED <<fs, scopes, pid, pc, req, target, fd, result, notGuardVars>>

\* __exit__: handle.close(), then the symlink test on the target
Close(t) ==
    /\ pc[t] = "write"
    /\ off[t] = ContentLen
    /\ fd' = [fd EXCEPT ![t] = 0]
    /\ off' = [off EXCEPT ![t] = 0]
    /\ data' = Collect(data, fs, {fd'[u] : u \in Threads} \cup {hs.fd})
    /\ IF PathExists(fs, target[t]) /\ IsSymlink(fs, target[t])
       THEN /\ pc' = [pc EXCEPT ![t] = "idle"]
            /\ result' = [result EXCEPT ![t] = "ScopeError"]
       ELSE /\ pc' = [pc EXCEPT ![t] = "rename"]
            /\ result' = result
    /\ UNCHANGED <<fs, scopes, pid, req, target, notGuardVars>>

\* tmp.replace(target): rename(2), neither final component followed
Rename(t) ==
    /\ pc[t] = "rename"
    /\ LET src == EntryPath(fs, TmpPath(target[t], pid[t]))
           dst == EntryPath(fs, target[t])
       IN  IF \/ src = NoDir \/ dst = NoDir \/ dst = Root
              \/ ~Exists(fs, src)
              \/ (KindOf(fs, dst) = "dir" /\ KindOf(fs, src) # "dir")
           THEN /\ result' = [result EXCEPT ![t] = "OSError"]
                /\ UNCHANGED <<fs, data>>
           ELSE /\ result' = [result EXCEPT ![t] = "ok"]
                /\ fs' = (dst :> fs[src]) @@ Without(fs, {src, dst})
                /\ data' = Collect(data, fs', Fds)
    /\ pc' = [pc EXCEPT ![t] = "idle"]
    /\ UNCHANGED <<scopes, pid, req, target, fd, off, notGuardVars>>

Step(t) == Mkdir(t) \/ Open(t) \/ WriteChunk(t) \/ Close(t) \/ Rename(t)


(***************************************************************************)
(* Hash cache: provtools_cache.py.                                         *)
(***************************************************************************)
\* hashlib.sha256 over the chunks read, as a collision-free function, rendered
\* by hexdigest() in lower case
HexDigest(chunks) == [sha |-> chunks, upper |-> FALSE]
\* str.lower() of a hex digest
Lower(d) == [d EXCEPT !.upper = FALSE]

World == [fs |-> fs, data |-> data, mt |-> mtimes]

\* an identity that leaves the modification time out
MetaOfInoNoMtime(w, i) == <<"dev", i, Len(w.data[i]), 0>>
\* _meta_from_stat of os.stat(p, follow_symlinks=False) / os.fstat(fd):
\* "dev:ino:size:mtime_ns"
MetaOfIno(w, i) == <<"dev", i, Len(w.data[i]), w.mt[i]>>
MetaOfEntry(w, e) ==
    IF w.fs[e].kind = "file" THEN MetaOfIno(w, w.fs[e].ino)
    ELSE <<"dev", w.fs[e].kind, e, 0>>

ColdCache == [loaded |-> FALSE, entries |-> <<>>]
\* nothing has been signed
IdleWire == [pc |-> "idle", type |-> <<>>, payload |-> <<>>, enc |-> <<>>, priv |-> "",
             sig |-> [by |-> "", msg |-> <<>>], same |-> FALSE, keyOk |-> FALSE,
             ok |-> FALSE]
\* synth_command=None
NoCommand == [has |-> FALSE, argv |-> <<>>, does |-> "nothing", code |-> 0]
\* run_pipeline has not been called
IdlePipe == [pc |-> "idle", synth |-> NoCommand, priv |-> "", ran |-> FALSE, code |-> 0,
             checked |-> FALSE, raised |-> "none", status |-> -1]
\* the temporary file of _persist_cache: absent, created and not yet written
\* in full ("partial"), or holding the whole text ("complete")
NoTmp == [state |-> "none", entries |-> <<>>]
\* .prov_cache.json does not exist
AbsentStore == [state |-> "absent", entries |-> <<>>, tmp |-> NoTmp]

\* _load_cache (lines 21-30)
LoadCache(c, st) ==
    IF c.loaded THEN c
    ELSE [loaded |-> TRUE,
          entries |-> IF st.state = "valid" THEN st.entries ELSE c.entries]

\* line 38 for a process that writes its JSON text into the store file itself
PersistOpenInPlace(c, st) == [st EXCEPT !.state = "partial", !.entries = <<>>]

\* line 38, first half: write_text creates the temporary file, whose name
\* holds the pid and a fresh uuid
PersistOpen(c, st) == [st EXCEPT !.tmp = [state |-> "partial", entries |-> <<>>]]

\* line 38, second half: the JSON text of _CACHE_DATA is in the temporary file
PersistWrite(c, st) == [st EXCEPT !.tmp = [state |-> "complete", entries |-> c.entries]]

\* line 39: tmp_path.replace(CACHE_PATH)
PersistReplace(c, st) ==
    [state |-> IF st.tmp.state = "complete" THEN "valid" ELSE "partial",
     entries |-> st.tmp.entries, tmp |-> NoTmp]

\* _persist_cache (lines 33-39)
PersistCache(c, st) ==
    IF ~c.loaded THEN st
    ELSE PersistReplace(c, PersistWrite(c, PersistOpen(c, st)))

\* _CACHE_DATA.get(key) when the key is absent
NoEntry == [has |-> FALSE, meta |-> <<>>, sha |-> HexDigest(<<>>)]
EntryOf(c, key) ==
    IF key \in DOMAIN c.entries
    THEN [has |-> TRUE, meta |-> c.entries[key].meta, sha |-> c.entries[key].sha]
    ELSE NoEntry

IdleHash == [pc |-> "idle", path |-> <<>>, key |-> <<>>, pre |-> <<>>, entry |-> NoEntry,
             start |-> <<>>, end |-> <<>>, fd |-> 0, pos |-> 0, acc |-> <<>>,
             nofollow |-> TRUE,
             out |-> "none", digest |-> HexDigest(<<>>), fresh |-> FALSE]

HDone(h, o) == [h EXCEPT !.pc = "done", !.out = o, !.fd = 0]
HReturn(h, d, fr) ==
    [h EXCEPT !.pc = "done", !.out = "digest", !.digest = d, !.fresh = fr, !.fd = 0]

HState(h, c, st) == [h |-> h, c |-> c, st |-> st]

\* lines 52-64 with a lookup that returns whatever entry the key has
HashLookupAnyMeta(h, c, st, w) ==
    LET resolved == Realpath(w.fs, h.path)
        c1 == LoadCache(c, st)
        e == EntryPath(w.fs, resolved)
    IN  IF e = NoDir \/ ~Exists(w.fs, e)
        THEN HState(HDone([h EXCEPT !.key = resolved], "FileNotFoundError"), c1, st)
        ELSE LET pre == MetaOfEntry(w, e)
                 entry == EntryOf(c1, resolved)
                 h1 == [h EXCEPT !.key = resolved, !.pre = pre, !.entry = entry]
             IN  IF entry.has
                 THEN HState(HReturn(h1, entry.sha, FALSE), c1, st)
                 ELSE HState([h1 EXCEPT !.pc = "open"], c1, st)

\* lines 52-64: resolve, _load_cache, the pre-open stat, the cache lookup
HashLookup(h, c, st, w) ==
    LET resolved == Realpath(w.fs, h.path)
        c1 == LoadCache(c, st)
        e == EntryPath(w.fs, resolved)
    IN  IF e = NoDir \/ ~Exists(w.fs, e)
        THEN HState(HDone([h EXCEPT !.key = resolved], "FileNotFoundError"), c1, st)
        ELSE LET pre == MetaOfEntry(w, e)
                 entry == EntryOf(c1, resolved)
                 h1 == [h EXCEPT !.key = resolved, !.pre = pre, !.entry = entry]
             IN  IF entry.has /\ entry.meta = pre
                 THEN HState(HReturn(h1, entry.sha, FALSE), c1, st)
                 ELSE HState([h1 EXCEPT !.pc = "open"], c1, st)

\* lines 66-73 and 76-77: os.open with O_NOFOLLOW and the post-open fstat;
\* ELOOP (the name is a symlink) is raised, any other error of the open (here:
\* the name is missing) goes on to the open of line 74
HashOpen(h, c, st, w) ==
    LET e == EntryPath(w.fs, h.key)
    IN  IF e # NoDir /\ KindOf(w.fs, e) = "link"
        THEN HState(HDone(h, "OSError"), c, st)
        ELSE IF e = NoDir \/ ~Exists(w.fs, e)
        THEN HState([h EXCEPT !.pc = "reopen"], c, st)
        ELSE IF KindOf(w.fs, e) = "dir"
        THEN HState(HDone(h, "OSError"), c, st)
        ELSE LET i == w.fs[e].ino
             IN  HState([h EXCEPT !.pc = "read", !.fd = i, !.pos = 0, !.acc = <<>>,
                                  !.nofollow = TRUE,
                                  !.start = MetaOfIno(w, i)], c, st)

\* lines 74 and 76-77: os.open(resolved, os.O_RDONLY), which follows a symlink
\* in the last place of the name too, and the post-open fstat
HashReopen(h, c, st, w) ==
    LET e == FollowPath(w.fs, h.key)
    IN  IF e = NoDir \/ ~Exists(w.fs, e)
        THEN HState(HDone(h, "FileNotFoundError"), c, st)
        ELSE IF KindOf(w.fs, e) # "file"
        THEN HState(HDone(h, "OSError"), c, st)
        ELSE LET i == w.fs[e].ino
             IN  HState([h EXCEPT !.pc = "read", !.fd = i, !.pos = 0, !.acc = <<>>,
                                  !.nofollow = FALSE,
                                  !.start = MetaOfIno(w, i)], c, st)

\* lines 79-83: one os.read; an empty chunk ends the loop
HashRead(h, c, st, w) ==
    IF h.pos < Len(w.data[h.fd])
    THEN HState([h EXCEPT !.pos = @ + 1, !.acc = Append(@, w.data[h.fd][h.pos + 1])],
                c, st)
    ELSE HState([h EXCEPT !.pc = "eof"], c, st)

\* lines 88-91 with the comparison against the pre-open stat left out
RaceDetectedNoPre(pre, start, end) == start # end

\* lines 88-91: the two identity comparisons
RaceDetected(pre, start, end) == start # end \/ start # pre

\* lines 84-94 with the cache update and the persist moved before the identity
\* checks
HashFinishStoreFirst(h, c, st, w) ==
    LET end == MetaOfIno(w, h.fd)
        h1 == [h EXCEPT !.end = end, !.fd = 0]
        d == HexDigest(h.acc)
        c1 == [c EXCEPT !.entries = (h.key :> [meta |-> h.start, sha |-> d]) @@ @]
    IN  IF RaceDetected(h.pre, h.start, end)
        THEN HState(HDone(h1, "HashRaceError"), c1, PersistCache(c1, st))
        ELSE HState([h1 EXCEPT !.pc = "persist", !.digest = d, !.fresh = TRUE], c1, st)

\* lines 84-94: the post-read fstat, close, the identity checks, the update of
\* _CACHE_DATA; _persist_cache and the return follow
HashFinish(h, c, st, w) ==
    LET end == MetaOfIno(w, h.fd)
        h1 == [h EXCEPT !.end = end, !.fd = 0]
    IN  IF RaceDetected(h.pre, h.start, end)
        THEN HState(HDone(h1, "HashRaceError"), c, st)
        ELSE LET d == HexDigest(h.acc)
                 c1 == [c EXCEPT !.entries =
                            (h.key :> [meta |-> h.start, sha |-> d]) @@ @]
             IN  HState([h1 EXCEPT !.pc = "persist", !.digest = d, !.fresh = TRUE],
                        c1, st)

\* lines 95-96: _persist_cache, step by step, and the return of the digest
HashPersist(h, c, st, w) ==
    IF h.pc = "persist" THEN HState([h EXCEPT !.pc = "write"], c, PersistOpen(c, st))
    ELSE IF h.pc = "write" THEN HState([h EXCEPT !.pc = "replace"], c, PersistWrite(c, st))
    ELSE HState(HReturn(h, h.digest, TRUE), c, PersistReplace(c, st))

\* no hashing is under way and nothing is cached
InitCacheIdle ==
    /\ mtimes = <<>>
    /\ clock = 0
    /\ cache = ColdCache
    /\ store = AbsentStore
    /\ peer = ColdCache
    /\ pipe = IdlePipe
    /\ wire = IdleWire
    /\ hs = IdleHash

\* one step of sha256_cached
HashStep(h, c, st, w) ==
    IF h.pc = "lookup" THEN HashLookup(h, c, st, w)
    ELSE IF h.pc = "open" THEN HashOpen(h, c, st, w)
    ELSE IF h.pc = "reopen" THEN HashReopen(h, c, st, w)
    ELSE IF h.pc = "read" THEN HashRead(h, c, st, w)
    ELSE IF h.pc = "eof" THEN HashFinish(h, c, st, w)
    ELSE IF h.pc \in {"persist", "write", "replace"} THEN HashPersist(h, c, st, w)
    ELSE HState(h, c, st)

\* sha256_cached run to its end in an unchanging file system
RECURSIVE HashRun(_, _)
HashRun(s, w) ==
    IF s.h.pc \in {"done", "idle"} THEN s
    ELSE HashRun(HashStep(s.h, s.c, s.st, w), w)

Sha256Cached(path, c, st, w) ==
    HashRun(HState([IdleHash EXCEPT !.pc = "lookup", !.path = path], c, st), w)

\* ---- sha256_cached as a process, one action per step
HashCall(p) ==
    /\ hs.pc \in {"idle", "done"}
    /\ hs' = [IdleHash EXCEPT !.pc = "lookup", !.path = p]
    /\ UNCHANGED <<fsVars, guardVars, mcpVars, peer, pipe, wire, provVars, mtimes, clock, cache, store>>

HashAdvance ==
    /\ hs.pc \notin {"idle", "done"}
    /\ \E n \in {HashStep(hs, cache, store, World)} :
           /\ hs' = n.h
           /\ cache' = n.c
           /\ store' = n.st
           /\ data' = Collect(data, fs, (Fds \ {hs.fd}) \cup {n.h.fd})
    /\ UNCHANGED <<fs, guardVars, mcpVars, peer, pipe, wire, provVars, mtimes, clock>>

\* the process dies inside sha256_cached: its handle and its memory are gone,
\* what it has written so far stays
HashCrash ==
    /\ hs.pc \notin {"idle", "done"}
    /\ hs' = IdleHash
    /\ cache' = ColdCache
    /\ data' = Collect(data, fs, Fds \ {hs.fd})
    /\ UNCHANGED <<fs, guardVars, mcpVars, peer, pipe, wire, provVars, mtimes, clock, store>>

\* ---- a second process with the same store: its _load_cache, and a whole call
\* of sha256_cached, whose temporary file has a name of its own
PeerLoad ==
    /\ ~peer.loaded
    /\ peer' = LoadCache(peer, store)
    /\ UNCHANGED <<fsVars, guardVars, mcpVars, pipe, wire, provVars, mtimes, clock, cache, store, hs>>

PeerHash(p) ==
    /\ peer.loaded
    /\ \E r \in {Sha256Cached(p, peer, [store EXCEPT !.tmp = NoTmp], World)} :
           /\ peer' = r.c
           /\ store' = [r.st EXCEPT !.tmp = store.tmp]
    /\ UNCHANGED <<fsVars, guardVars, mcpVars, pipe, wire, provVars, mtimes, clock, cache, hs>>

PeerExit ==
    /\ peer.loaded
    /\ peer' = ColdCache
    /\ UNCHANGED <<fsVars, guardVars, mcpVars, pipe, wire, provVars, mtimes, clock, cache, store, hs>>

\* a new process starts: the in-memory cache is empty again
NewProcess ==
    /\ hs.pc \in {"idle", "done"}
    /\ cache.loaded
    /\ cache' = ColdCache
    /\ UNCHANGED <<fsVars, guardVars, mcpVars, peer, pipe, wire, provVars, mtimes, clock, store, hs>>


(***************************************************************************)
(* Statement engine: provtools.py.                                         *)
(***************************************************************************)
\* a key of a mapping that may be absent
None == [has |-> FALSE, v |-> <<>>]
Some(x) == [has |-> TRUE, v |-> x]
\* the truth value Python gives to mapping.get(key)
Truthy(o) == o.has /\ o.v # <<>>

NoSha == [has |-> FALSE, v |-> HexDigest(<<>>)]
Sha(d) == [has |-> TRUE, v |-> d]
\* the "digest" mapping of a subject or material
NoDigest == [has |-> FALSE, sha256 |-> NoSha]

Item(n, u, d) == [name |-> n, uri |-> u, digest |-> d]

PAYLOAD_TYPE == "application/vnd.in-toto+json"
\* strings matching ^https://in-toto\.io/Statement/v(0\.1|1)$
StatementTypes ==
    {"https://in-toto.io/Statement/v1", "https://in-toto.io/Statement/v0.1"}
\* the strings of the model matching ^https://.+
HttpsTypes == {"https://accord.ai/schemas/policy@v1"}

\* characters in code point order
Alphabet ==
    <<".", "/", "1", "2", "3", ":", "\\", "a", "b", "d", "e", "h", "l", "m",
      "n", "o", "p", "q", "s", "t", "u", "w", "x", "z", "~">>
Ord(c) == CHOOSE i \in 1..Len(Alphabet) : Alphabet[i] = c

\* a < b for Python strings
RECURSIVE StrLess(_, _)
StrLess(a, b) ==
    IF b = <<>> THEN FALSE
    ELSE IF a = <<>> THEN TRUE
    ELSE IF Head(a) = Head(b) THEN StrLess(Tail(a), Tail(b))
    ELSE Ord(Head(a)) < Ord(Head(b))

\* word in text
Contains(s, w) ==
    \E i \in 1..(Len(s) + 1) : i + Len(w) - 1 <= Len(s) /\ SubSeq(s, i, i + Len(w) - 1) = w

\* pathlib's parse of a string: split at "/", empty and "." components dropped
RECURSIVE SplitSlash(_, _)
SplitSlash(s, cur) ==
    IF s = <<>> THEN (IF cur = <<>> THEN <<>> ELSE <<cur>>)
    ELSE IF Head(s) = "/"
         THEN (IF cur = <<>> THEN <<>> ELSE <<cur>>) \o SplitSlash(Tail(s), <<>>)
    ELSE SplitSlash(Tail(s), Append(cur, Head(s)))

PathParts(s) == SelectSeq(SplitSlash(s, <<>>), LAMBDA c : c # <<".">>)

\* Path(name).is_absolute() or name.startswith(("~", "/", "\\"))
IsAbsoluteOrHome(s) == s # <<>> /\ Head(s) \in {"~", "/", "\\"}

\* re.match(r"^[a-z]+://", name)
IsRemote(s) ==
    \E k \in 1..Len(s) :
        /\ \A i \in 1..k : Ord("a") <= Ord(s[i]) /\ Ord(s[i]) <= Ord("z")
        /\ k + 3 <= Len(s)
        /\ SubSeq(s, k + 1, k + 3) = <<":", "/", "/">>

\* ---- extract_header (lines 68-88)
\* an HTML comment of the artifact: whether its body holds "provenance:"
\* (in any case of letters), what YAML makes of the body (a mapping, something
\* else, or an error), what the mapping holds under the key provenance (a
\* mapping: wrapped, no such key: legacy, an empty value: null, anything else:
\* other), and the mapping it carries
Block(prov, raw, layout, header) ==
    [prov |-> prov, raw |-> raw, layout |-> layout, header |-> header]

EmptyHeader ==
    [type |-> "", statement_type |-> "", predicateType |-> "", predicate_type |-> "",
     subject |-> <<>>, materials |-> None, predicate |-> [materials |-> None]]


\* what extract_header returns, or the ValueError it raises
Extracted(ok, h) ==
    [ok |-> ok, header |-> h, raised |-> IF ok THEN "none" ELSE "ValueError"]

\* extract_header with "continue" of line 82 replaced by the ValueError of line 86
RECURSIVE ExtractHeaderStrict(_)
ExtractHeaderStrict(blocks) ==
    IF blocks = <<>> THEN Extracted(FALSE, EmptyHeader)
    ELSE LET b == Head(blocks)
         IN  IF ~b.prov THEN ExtractHeaderStrict(Tail(blocks))
             ELSE IF b.raw = "invalid"
             THEN [Extracted(FALSE, EmptyHeader) EXCEPT !.raised = "YAMLError"]
             ELSE IF b.raw # "mapping" THEN Extracted(FALSE, EmptyHeader)
             ELSE IF b.layout = "null" THEN Extracted(TRUE, EmptyHeader)
             ELSE IF b.layout \in {"wrapped", "legacy"} THEN Extracted(TRUE, b.header)
             ELSE Extracted(FALSE, EmptyHeader)

\* lines 76-88: the loop over the comments, in document order
RECURSIVE ExtractHeader(_)
ExtractHeader(blocks) ==
    IF blocks = <<>> THEN Extracted(FALSE, EmptyHeader)
    ELSE LET b == Head(blocks)
         IN  IF ~b.prov THEN ExtractHeader(Tail(blocks))
             ELSE IF b.raw = "invalid"
             THEN [Extracted(FALSE, EmptyHeader) EXCEPT !.raised = "YAMLError"]
             ELSE IF b.raw # "mapping" THEN ExtractHeader(Tail(blocks))
             ELSE IF b.layout = "null" THEN Extracted(TRUE, EmptyHeader)
             ELSE IF b.layout \in {"wrapped", "legacy"} THEN Extracted(TRUE, b.header)
             ELSE Extracted(FALSE, EmptyHeader)

\* ---- normalize_to_statement (lines 91-113)
NormalizeSubject(it) ==
    LET s1 == IF it.uri.has /\ ~it.name.has
              THEN [it EXCEPT !.name = it.uri, !.uri = None]
              ELSE it
    IN  [s1 EXCEPT !.digest.has = TRUE]

NormalizeToStatement(h) ==
    [type |-> IF h.type # "" THEN h.type ELSE h.statement_type,
     subject |-> [i \in 1..Len(h.subject) |-> NormalizeSubject(h.subject[i])],
     predicateType |-> IF h.predicateType # "" THEN h.predicateType
                       ELSE h.predicate_type,
     predicate |-> IF h.materials.has /\ ~h.predicate.materials.has
                   THEN [h.predicate EXCEPT !.materials = h.materials]
                   ELSE h.predicate]

\* ---- validate_statement (lines 116-121) against STATEMENT_SCHEMA (lines 28-55)
Err(text, name) == [text |-> text, name |-> name]

RECURSIVE SubjectsSchemaErrors(_)
SubjectsSchemaErrors(items) ==
    IF items = <<>> THEN <<>>
    ELSE (IF ~Head(items).name.has THEN <<Err("'name' is a required property", <<>>)>>
          ELSE IF Head(items).name.v = <<>> THEN <<Err("'' is too short", <<>>)>>
          ELSE <<>>)
         \o SubjectsSchemaErrors(Tail(items))

ValidateStatement(s) ==
    (IF s.type \in StatementTypes THEN <<>> ELSE <<Err("does not match @ _type", <<>>)>>)
    \o (IF s.subject = <<>> THEN <<Err("[] is too short @ subject", <<>>)>>
        ELSE SubjectsSchemaErrors(s.subject))
    \o (IF s.predicateType \in HttpsTypes THEN <<>>
        ELSE <<Err("does not match @ predicateType", <<>>)>>)

\* ---- fill_and_check_digests (lines 124-211)
\* what one item leaves behind: the item as updated, its errors, the cache,
\* the store, an exception that is not caught, and the value _sha256 returned
ItemResult(it, errs, c, st, raised, actual) ==
    [item |-> it, errors |-> errs, c |-> c, st |-> st, raised |-> raised,
     actual |-> actual]

NotFoundText(kind) ==
    IF kind = "subject" THEN "subject path not found" ELSE "material path not found"
MismatchText(kind) ==
    IF kind = "subject" THEN "subject digest mismatch for"
    ELSE "materials digest mismatch for"

\* a recorded digest taken as matching whatever was computed
DigestDiffersNever(recorded, actual) == FALSE

\* digest["sha256"].lower() != actual
DigestDiffers(recorded, actual) == Lower(recorded) # actual

\* the handler of HashRaceError made to keep the digest of what was read
ComparedKeepsRaced(kind, it, r) ==
    IF r.h.out = "HashRaceError"
    THEN ItemResult([it EXCEPT !.digest = [has |-> TRUE, sha256 |-> Sha(HexDigest(r.h.acc))]],
                    <<>>, r.c, r.st, "none", Sha(HexDigest(r.h.acc)))
    ELSE IF r.h.out = "FileNotFoundError"
    THEN ItemResult(it, <<Err(NotFoundText(kind), it.name.v)>>, r.c, r.st, "none", NoSha)
    ELSE IF r.h.out # "digest"
    THEN ItemResult(it, <<>>, r.c, r.st, r.h.out, NoSha)
    ELSE IF it.digest.sha256.has
    THEN ItemResult(it,
            IF DigestDiffers(it.digest.sha256.v, r.h.digest)
            THEN <<Err(MismatchText(kind), it.name.v)>> ELSE <<>>,
            r.c, r.st, "none", Sha(r.h.digest))
    ELSE ItemResult([it EXCEPT !.digest.sha256 = Sha(r.h.digest)], <<>>, r.c, r.st,
                    "none", Sha(r.h.digest))

\* lines 149-160 / 197-209: what is made of the outcome r of _sha256
Compared(kind, it, r) ==
    IF r.h.out = "HashRaceError"
    THEN ItemResult(it, <<Err("file changed during hashing", it.name.v)>>,
                    r.c, r.st, "none", NoSha)
    ELSE IF r.h.out = "FileNotFoundError"
    THEN ItemResult(it, <<Err(NotFoundText(kind), it.name.v)>>, r.c, r.st, "none", NoSha)
    ELSE IF r.h.out # "digest"
    THEN ItemResult(it, <<>>, r.c, r.st, r.h.out, NoSha)
    ELSE IF it.digest.sha256.has
    THEN ItemResult(it,
            IF DigestDiffers(it.digest.sha256.v, r.h.digest)
            THEN <<Err(MismatchText(kind), it.name.v)>> ELSE <<>>,
            r.c, r.st, "none", Sha(r.h.digest))
    ELSE ItemResult([it EXCEPT !.digest.sha256 = Sha(r.h.digest)], <<>>, r.c, r.st,
                    "none", Sha(r.h.digest))

\* what the steps before _sha256 make of one item: it is done with (skipped
\* or rejected), or its file at target is to be hashed
Screened(done, it, errs, t) == [done |-> done, item |-> it, errors |-> errs, target |-> t]

\* lines 136-148 / 183-195: is_symlink, resolve, relative_to, exists
Located(kind, base, it, w) ==
    IF IsSymlink(w.fs, base \o PathParts(it.name.v))
    THEN Screened(TRUE, it, <<Err("symlink not allowed", it.name.v)>>, <<>>)
    ELSE IF ~IsPrefix(base, Realpath(w.fs, base \o PathParts(it.name.v)))
    THEN Screened(TRUE, it, <<Err("path escapes base_dir", it.name.v)>>, <<>>)
    ELSE IF ~PathExists(w.fs, Realpath(w.fs, base \o PathParts(it.name.v)))
    THEN Screened(TRUE, it, <<Err(NotFoundText(kind), it.name.v)>>, <<>>)
    ELSE Screened(FALSE, it, <<>>, Realpath(w.fs, base \o PathParts(it.name.v)))

\* lines 128-148: a subject up to the call of _sha256
ScreenSubject(base, it, w) ==
    IF ~Truthy(it.name)
    THEN Screened(TRUE, it, <<Err("subject missing name", <<>>)>>, <<>>)
    ELSE IF IsAbsoluteOrHome(it.name.v)
    THEN Screened(TRUE, it, <<Err("absolute or home path not allowed", it.name.v)>>, <<>>)
    ELSE Located("subject", base, [it EXCEPT !.digest.has = TRUE], w)

\* the material once lines 170-172 have renamed it
Renamed(it, name) == [it EXCEPT !.name = Some(name), !.uri = None, !.digest.has = TRUE]

\* lines 165-195: a material up to the call of _sha256
ScreenMaterial(base, it, w) ==
    IF ~Truthy(IF Truthy(it.name) THEN it.name ELSE it.uri)
    THEN Screened(TRUE, it, <<Err("material missing name", <<>>)>>, <<>>)
    ELSE IF IsRemote((IF Truthy(it.name) THEN it.name ELSE it.uri).v)
    THEN Screened(TRUE, Renamed(it, (IF Truthy(it.name) THEN it.name ELSE it.uri).v),
                  IF it.digest.has /\ it.digest.sha256.has THEN <<>>
                  ELSE <<Err("remote material requires digest",
                             (IF Truthy(it.name) THEN it.name ELSE it.uri).v)>>,
                  <<>>)
    ELSE IF IsAbsoluteOrHome((IF Truthy(it.name) THEN it.name ELSE it.uri).v)
    THEN Screened(TRUE, Renamed(it, (IF Truthy(it.name) THEN it.name ELSE it.uri).v),
                  <<Err("absolute or home path not allowed",
                        (IF Truthy(it.name) THEN it.name ELSE it.uri).v)>>,
                  <<>>)
    ELSE Located("material", base,
                 Renamed(it, (IF Truthy(it.name) THEN it.name ELSE it.uri).v), w)

Screen(kind, base, it, w) ==
    IF kind = "subject" THEN ScreenSubject(base, it, w) ELSE ScreenMaterial(base, it, w)

\* the item is hashed unless the screening was done with it
HashAndCompare(kind, s, c, st, w) ==
    IF s.done THEN ItemResult(s.item, s.errors, c, st, "none", NoSha)
    ELSE Compared(kind, s.item, Sha256Cached(s.target, c, st, w))

\* lines 127-160
FillSubject(base, it, c, st, w) ==
    HashAndCompare("subject", ScreenSubject(base, it, w), c, st, w)

\* lines 163-209
FillMaterial(base, it, c, st, w) ==
    HashAndCompare("material", ScreenMaterial(base, it, w), c, st, w)

\* one more item done: what the loop has gathered so far, and the digest
\* _sha256 returned for the item at this place of the list
Gathered(kind, acc, r) ==
    [items |-> Append(acc.items, r.item), errors |-> acc.errors \o r.errors,
     c |-> r.c, st |-> r.st, raised |-> r.raised,
     hashed |-> IF r.actual.has
                THEN Append(acc.hashed, [kind |-> kind, i |-> Len(acc.items) + 1,
                                         name |-> r.item.name.v, sha256 |-> r.actual.v])
                ELSE acc.hashed]

\* the loop over the items, in order; an uncaught exception ends it
RECURSIVE FillItems(_, _, _, _, _)
FillItems(kind, base, items, acc, w) ==
    IF items = <<>> \/ acc.raised # "none" THEN acc
    ELSE FillItems(kind, base, Tail(items),
                   Gathered(kind, acc,
                            IF kind = "subject"
                            THEN FillSubject(base, Head(items), acc.c, acc.st, w)
                            ELSE FillMaterial(base, Head(items), acc.c, acc.st, w)),
                   w)

\* predicate.get("materials", []) or []
Materials(s) == IF s.predicate.materials.has THEN s.predicate.materials.v ELSE <<>>

\* the statement as the two loops leave it, and their errors
Filled(s, subj, mat) ==
    [statement |->
        [s EXCEPT !.subject = subj.items \o SubSeq(@, Len(subj.items) + 1, Len(@)),
                  !.predicate.materials.v =
                      mat.items \o SubSeq(Materials(s), Len(mat.items) + 1,
                                          Len(Materials(s)))],
     errors |-> subj.errors \o mat.errors, c |-> mat.c, st |-> mat.st,
     raised |-> mat.raised, hashed |-> mat.hashed]

\* the second loop, over the materials
FillMaterials(base, s, subj, w) ==
    Filled(s, subj, FillItems("material", base, Materials(s),
                              [subj EXCEPT !.items = <<>>, !.errors = <<>>], w))

FillAndCheckDigests(base, s, c, st, w) ==
    FillMaterials(base, s,
                  FillItems("subject", base, s.subject,
                            [items |-> <<>>, errors |-> <<>>, c |-> c, st |-> st,
                             raised |-> "none", hashed |-> <<>>], w),
                  w)

\* ---- one item of fill_and_check_digests as a process: the steps before
\* _sha256, the steps of sha256_cached, and what is made of its outcome
IdleItem ==
    [pc |-> "idle", kind |-> "subject", item |-> Item(None, None, NoDigest),
     errors |-> <<>>, raised |-> "none"]

\* lines 128-150 / 165-198: up to the call of _sha256
ItemBegin(kind, base, it) ==
    /\ item.pc \in {"idle", "done"}
    /\ hs.pc \in {"idle", "done"}
    /\ \E s \in {Screen(kind, base, it, World)} :
          /\ item' = [pc |-> IF s.done THEN "done" ELSE "hash", kind |-> kind,
                      item |-> s.item, errors |-> s.errors, raised |-> "none"]
          /\ hs' = IF s.done THEN IdleHash
                   ELSE [IdleHash EXCEPT !.pc = "lookup", !.path = s.target]
    /\ UNCHANGED <<fsVars, guardVars, mcpVars, peer, pipe, wire, mtimes, clock, cache, store, build,
                   verdict>>

\* lines 151-161 / 199-209: the outcome of _sha256 is caught or compared
ItemEnd ==
    /\ item.pc = "hash"
    /\ hs.pc = "done"
    /\ \E r \in {Compared(item.kind, item.item, HState(hs, cache, store))} :
          item' = [item EXCEPT !.pc = "done", !.item = r.item, !.errors = r.errors,
                               !.raised = r.raised]
    /\ UNCHANGED <<fsVars, guardVars, mcpVars, peer, pipe, wire, cacheVars, build, verdict>>

\* ---- json.dumps(statement, separators=(",", ":"), sort_keys=True) and
\* json.loads: a mapping is rendered as its present keys in sorted order, each
\* with its rendered value
JsonItem(it) ==
    (IF ~it.digest.has THEN <<>>
     ELSE <<<<"digest", IF it.digest.sha256.has
                        THEN <<<<"sha256", it.digest.sha256.v>>>> ELSE <<>>>>>>)
    \o (IF it.name.has THEN <<<<"name", it.name.v>>>> ELSE <<>>)
    \o (IF it.uri.has THEN <<<<"uri", it.uri.v>>>> ELSE <<>>)

JsonStatement(s) ==
    <<<<"_type", s.type>>,
      <<"predicate",
        IF ~s.predicate.materials.has THEN <<>>
        ELSE <<<<"materials", [i \in 1..Len(s.predicate.materials.v) |->
                                 JsonItem(s.predicate.materials.v[i])]>>>>>>,
      <<"predicateType", s.predicateType>>,
      <<"subject", [i \in 1..Len(s.subject) |-> JsonItem(s.subject[i])]>>>>

HasKey(pairs, k) == \E i \in 1..Len(pairs) : pairs[i][1] = k
Value(pairs, k) == pairs[CHOOSE i \in 1..Len(pairs) : pairs[i][1] = k][2]

ParseItem(pairs) ==
    [name |-> IF HasKey(pairs, "name") THEN Some(Value(pairs, "name")) ELSE None,
     uri |-> IF HasKey(pairs, "uri") THEN Some(Value(pairs, "uri")) ELSE None,
     digest |-> IF ~HasKey(pairs, "digest") THEN NoDigest
                ELSE [has |-> TRUE,
                      sha256 |-> IF HasKey(Value(pairs, "digest"), "sha256")
                                 THEN Sha(Value(Value(pairs, "digest"), "sha256"))
                                 ELSE NoSha]]

ParseStatement(pairs) ==
    [type |-> Value(pairs, "_type"),
     subject |-> [i \in 1..Len(Value(pairs, "subject")) |->
                     ParseItem(Value(pairs, "subject")[i])],
     predicateType |-> Value(pairs, "predicateType"),
     predicate |->
        [materials |->
            IF ~HasKey(Value(pairs, "predicate"), "materials") THEN None
            ELSE Some([i \in 1..Len(Value(Value(pairs, "predicate"), "materials")) |->
                          ParseItem(Value(Value(pairs, "predicate"), "materials")[i])])]]

\* base64.b64encode / b64decode
B64Encode(x) == <<"base64", x>>
B64Decode(e) == e[2]

\* ---- Ed25519: a signature is valid for the message it was made over, under
\* the public half of the key that made it
PrivKeys == {"key1", "key2"}
PublicKey(priv) == <<"public", priv>>
Sign(priv, msg) == [by |-> priv, msg |-> msg]
\* a verification that looks at the key only, not at the message
VerifySignatureAnyMessage(pub, sig, msg) == pub = PublicKey(sig.by)

VerifySignature(pub, sig, msg) == pub = PublicKey(sig.by) /\ sig.msg = msg
\* key_fingerprint (lines 255-264)
KeyFingerprint(pub) == <<"sha256", pub>>

\* len(payload_type)
TypeLen(t) == IF t = PAYLOAD_TYPE THEN 28 ELSE 10

\* pae (lines 214-223)
Pae(t, payload) == <<"DSSEv1", TypeLen(t), t, Len(payload), payload>>

\* sorted(items, key=lambda item: item.get("name") or ""): a stable sort

RECURSIVE InsertByName(_, _)
InsertByName(sorted, it) ==
    IF sorted = <<>> THEN <<it>>
    ELSE IF StrLess(IF it.name.has THEN it.name.v ELSE <<>>,
                         IF Head(sorted).name.has THEN Head(sorted).name.v ELSE <<>>)
         THEN <<it>> \o sorted
    ELSE <<Head(sorted)>> \o InsertByName(Tail(sorted), it)

RECURSIVE SortByName(_)
SortByName(items) ==
    IF items = <<>> THEN <<>>
    ELSE InsertByName(SortByName(SubSeq(items, 1, Len(items) - 1)), items[Len(items)])

\* dsse_sign (lines 267-303)
Canonical(s) ==
    [s EXCEPT !.subject = SortByName(s.subject),
              !.predicate.materials.v = SortByName(s.predicate.materials.v)]

\* dsse_sign with the signature made over the statement as it was passed in
DsseSignBeforeSort(s, priv) ==
    LET payload == JsonStatement(Canonical(s))
    IN  [payloadType |-> PAYLOAD_TYPE,
         payload |-> B64Encode(payload),
         signatures |-> <<[keyid |-> KeyFingerprint(PublicKey(priv)),
                           sig |-> B64Encode(Sign(priv, Pae(PAYLOAD_TYPE,
                                                            JsonStatement(s))))]>>]

DsseSign(s, priv) ==
    LET payload == JsonStatement(Canonical(s))
    IN  [payloadType |-> PAYLOAD_TYPE,
         payload |-> B64Encode(payload),
         signatures |-> <<[keyid |-> KeyFingerprint(PublicKey(priv)),
                           sig |-> B64Encode(Sign(priv, Pae(PAYLOAD_TYPE, payload)))]>>]

\* dsse_verify without the test of lines 308-309
DsseVerifyAnyType(envelope, pub) ==
    IF VerifySignature(pub, B64Decode(envelope.signatures[1].sig),
                       Pae(envelope.payloadType, B64Decode(envelope.payload)))
    THEN "True"
    ELSE "InvalidSignature"

\* dsse_verify (lines 306-315): True, or the exception raised
DsseVerify(envelope, pub) ==
    IF envelope.payloadType # PAYLOAD_TYPE THEN "ValueError"
    ELSE IF VerifySignature(pub, B64Decode(envelope.signatures[1].sig),
                            Pae(envelope.payloadType, B64Decode(envelope.payload)))
    THEN "True"
    ELSE "InvalidSignature"

\* ---- cmd_verify (lines 383-443)
\* "file changed during hashing" in e
SaysHashing(e) ==
    \/ e.text = "file changed during hashing"
    \/ Contains(e.name, <<"f", "i", "l", "e", " ", "c", "h", "a", "n", "g", "e", "d", " ",
                          "d", "u", "r", "i", "n", "g", " ", "h", "a", "s", "h", "i", "n",
                          "g">>)
\* "path" in e
SaysPath(e) ==
    \/ e.text \in {"absolute or home path not allowed", "path escapes base_dir",
                   "subject path not found", "material path not found"}
    \/ Contains(e.name, <<"p", "a", "t", "h">>)
\* "allowed" in e
SaysAllowed(e) ==
    \/ e.text \in {"absolute or home path not allowed", "symlink not allowed"}
    \/ Contains(e.name, <<"a", "l", "l", "o", "w", "e", "d">>)
\* "digest mismatch" in e
SaysMismatch(e) ==
    \/ e.text \in {"subject digest mismatch for", "materials digest mismatch for"}
    \/ Contains(e.name, <<"d", "i", "g", "e", "s", "t", " ", "m", "i", "s", "m", "a",
                          "t", "c", "h">>)

\* lines 410-427
ErrorCode(signature_ok, schema_errors, digest_errors) ==
    IF signature_ok /\ schema_errors = <<>> /\ digest_errors = <<>> THEN "OK"
    ELSE IF ~signature_ok THEN "SIG_INVALID"
    ELSE IF schema_errors # <<>> THEN "SCHEMA_INVALID"
    ELSE IF \E i \in 1..Len(digest_errors) : SaysHashing(digest_errors[i])
    THEN "HASH_RACE"
    ELSE IF \E i \in 1..Len(digest_errors) :
                SaysPath(digest_errors[i]) /\ SaysAllowed(digest_errors[i])
    THEN "PATH_FORBIDDEN"
    ELSE IF \E i \in 1..Len(digest_errors) : SaysMismatch(digest_errors[i])
    THEN "DIGEST_MISMATCH"
    ELSE "DIGEST_INVALID"

NoVerdict ==
    [ran |-> FALSE, raised |-> "none", signature_ok |-> FALSE, schema_ok |-> FALSE,
     digest_ok |-> FALSE, error_code |-> "none", exit |-> 0 - 1,
     schema_errors |-> <<>>, digest_errors |-> <<>>]

\* lines 405-443: the flags, the error code and the exit status
Report(signature_ok, schema_errors, digest_errors) ==
    [ran |-> TRUE, raised |-> "none", signature_ok |-> signature_ok,
     schema_ok |-> signature_ok /\ schema_errors = <<>>,
     digest_ok |-> signature_ok /\ digest_errors = <<>>,
     error_code |-> ErrorCode(signature_ok, schema_errors, digest_errors),
     exit |-> IF signature_ok /\ schema_errors = <<>> /\ digest_errors = <<>>
              THEN 0 ELSE 1,
     schema_errors |-> schema_errors, digest_errors |-> digest_errors]

\* lines 400-403: the report once fill_and_check_digests has run
Judged(filled) ==
    [v |-> IF filled.raised # "none"
           THEN [NoVerdict EXCEPT !.ran = TRUE, !.raised = filled.raised, !.exit = 1]
           ELSE Report(TRUE, <<>>, filled.errors),
     c |-> filled.c, st |-> filled.st]

\* cmd_verify with the checks of lines 399-405 made whatever dsse_verify said
CmdVerifyUnsigned(envelope, pub, base, c, st, w) ==
    LET statement == ParseStatement(B64Decode(envelope.payload))
        schema_errors == ValidateStatement(statement)
        filled == FillAndCheckDigests(base, statement, c, st, w)
        signature_ok == DsseVerify(envelope, pub) = "True"
    IN  IF schema_errors # <<>>
        THEN [v |-> Report(signature_ok, schema_errors, <<>>), c |-> c, st |-> st]
        ELSE IF filled.raised # "none" THEN Judged(filled)
        ELSE [v |-> Report(signature_ok, <<>>, filled.errors),
              c |-> filled.c, st |-> filled.st]

\* the report and exit status, with the cache and store as the run leaves them
CmdVerify(envelope, pub, base, c, st, w) ==
    IF DsseVerify(envelope, pub) # "True"
    THEN [v |-> Report(FALSE, <<>>, <<>>), c |-> c, st |-> st]
    ELSE IF ValidateStatement(ParseStatement(B64Decode(envelope.payload))) # <<>>
    THEN [v |-> Report(TRUE,
                       ValidateStatement(ParseStatement(B64Decode(envelope.payload))),
                       <<>>),
          c |-> c, st |-> st]
    ELSE Judged(FillAndCheckDigests(base, ParseStatement(B64Decode(envelope.payload)),
                                    c, st, w))

\* ---- cmd_build (lines 328-380) as a process, and cmd_verify
Builders == {1, 2}
ArtPath == <<Str1("b"), NameA>>
AttPath == <<Str1("b"), Str1("q"), Str1("t")>>
NoEnvelope == [payloadType |-> "", payload |-> B64Encode(<<>>), signatures |-> <<>>]
NoStatement == NormalizeToStatement(EmptyHeader)

IdleBuild ==
    [pc |-> "idle", base |-> <<>>, priv |-> "", snap |-> [fs |-> <<>>, data |-> <<>>, mt |-> <<>>],
     schema_errors |-> <<>>, digest_errors |-> <<>>, errors |-> <<>>,
     statement |-> NoStatement, envelope |-> NoEnvelope, exit |-> 0 - 1,
     raised |-> "none", fd |-> 0, hashed |-> <<>>, header |-> EmptyHeader]

\* the temporary name without the process id and the uuid
AttTmpShared(b) ==
    Append(Parent(AttPath), Last(AttPath) \o <<".", "t", "m", "p">>)

\* out_path.with_name(f"{out_path.name}.{os.getpid()}.{uuid.uuid4().hex}.tmp")
AttTmp(b) ==
    Append(Parent(AttPath),
           Last(AttPath) \o <<".">> \o PidStr(b) \o <<".", "u">> \o PidStr(b)
               \o <<".", "t", "m", "p">>)

\* an exception nobody catches ends the interpreter with status 1
BuildRaised(r, e) == [r EXCEPT !.pc = "done", !.raised = e, !.exit = 1, !.fd = 0]

\* errors.extend(...) of line 336 left out
BuildErrorsSchemaOnly(schema_errors, digest_errors) == schema_errors

\* lines 334-336: errors = validate_statement(...); errors.extend(fill_and_check...)
BuildErrors(schema_errors, digest_errors) == schema_errors \o digest_errors

\* the command is started
BuildStart(b, base, priv) ==
    /\ build[b].pc \in {"idle", "done"}
    /\ build' = [build EXCEPT ![b] =
                    [IdleBuild EXCEPT !.pc = "check", !.base = base, !.priv = priv,
                                      !.snap = World]]
    /\ UNCHANGED <<fsVars, guardVars, mcpVars, peer, pipe, wire, cacheVars, verdict, item>>

\* lines 331-336: read, extract, normalize, validate, fill and check digests
BuildCheck(b) ==
    /\ build[b].pc = "check"
    /\ \E e \in {FollowPath(fs, ArtPath)} :
          IF e = NoDir \/ KindOf(fs, e) # "file"
          THEN /\ build' = [build EXCEPT ![b] = BuildRaised(@, "FileNotFoundError")]
               /\ UNCHANGED <<cache, store>>
          ELSE \E x \in {ExtractHeader(data[fs[e].ino])} :
                 IF ~x.ok
                 THEN /\ build' = [build EXCEPT ![b] = BuildRaised(@, x.raised)]
                      /\ UNCHANGED <<cache, store>>
                 ELSE \E schema_errors \in
                            {ValidateStatement(NormalizeToStatement(x.header))} :
                      \E filled \in
                            {FillAndCheckDigests(Realpath(fs, build[b].base),
                                                 NormalizeToStatement(x.header),
                                                 cache, store, World)} :
                        /\ cache' = filled.c
                        /\ store' = filled.st
                        /\ build' = [build EXCEPT ![b] =
                             IF filled.raised # "none"
                             THEN BuildRaised([@ EXCEPT !.header = x.header,
                                                        !.schema_errors = schema_errors,
                                                        !.digest_errors = filled.errors,
                                                        !.hashed = filled.hashed],
                                              filled.raised)
                             ELSE [@ EXCEPT !.pc = "checked",
                                            !.header = x.header,
                                            !.statement = filled.statement,
                                            !.schema_errors = schema_errors,
                                            !.digest_errors = filled.errors,
                                            !.hashed = filled.hashed,
                                            !.errors = BuildErrors(schema_errors,
                                                                   filled.errors)]]
    /\ UNCHANGED <<fsVars, guardVars, mcpVars, peer, pipe, wire, mtimes, clock, hs, verdict, item>>

\* the temporary file made before the errors are looked at
BuildFailLeavesTmp(b) ==
    /\ build[b].pc = "checked"
    /\ build[b].errors # <<>>
    /\ build' = [build EXCEPT ![b].pc = "done", ![b].exit = 1]
    /\ LET f1 == MkdirP(fs, Parent(AttPath))
       IN  fs' = IF f1 = Fail \/ AttTmp(b) \in DOMAIN f1 THEN fs
                 ELSE (AttTmp(b) :> FileEntry(NewIno(fs, Fds))) @@ f1
    /\ data' = IF fs' = fs THEN data ELSE (NewIno(fs, Fds) :> <<>>) @@ data
    /\ mtimes' = IF fs' = fs THEN mtimes ELSE (NewIno(fs, Fds) :> clock) @@ mtimes
    /\ UNCHANGED <<guardVars, mcpVars, peer, pipe, wire, clock, cache, store, hs, verdict, item>>

\* lines 338-355: if errors: ... return 1
BuildFail(b) ==
    /\ build[b].pc = "checked"
    /\ build[b].errors # <<>>
    /\ build' = [build EXCEPT ![b].pc = "done", ![b].exit = 1]
    /\ UNCHANGED <<fsVars, guardVars, mcpVars, peer, pipe, wire, cacheVars, verdict, item>>

\* load_priv (lines 241-245): path.read_bytes() of a key file that is not there
LoadPriv(priv) == IF priv \in PrivKeys THEN "ok" ELSE "FileNotFoundError"

\* line 357: dsse_sign
BuildSign(b) ==
    /\ build[b].pc = "checked"
    /\ build[b].errors = <<>>
    /\ build' = [build EXCEPT ![b] =
                    IF LoadPriv(build[b].priv) # "ok"
                    THEN BuildRaised([@ EXCEPT !.statement = Canonical(@)],
                                     LoadPriv(build[b].priv))
                    ELSE [@ EXCEPT !.pc = "signed",
                                   !.statement = Canonical(@),
                                   !.envelope = DsseSign(build[b].statement,
                                                         build[b].priv)]]
    /\ UNCHANGED <<fsVars, guardVars, mcpVars, peer, pipe, wire, cacheVars, verdict, item>>

\* json.dumps(envelope, indent=2) and json.loads of the envelope file
EnvelopeText(envelope) == <<[json |-> envelope]>>
ReadEnvelope(text) == text[1].json

\* lines 359-364: mkdir of the parent; write_text opens the temporary file,
\* which creates or truncates it
BuildOpen(b) ==
    /\ build[b].pc = "signed"
    /\ LET f1 == MkdirP(fs, Parent(AttPath))
           tmp == IF f1 = Fail THEN NoDir ELSE FollowPath(f1, AttTmp(b))
       IN  IF tmp = NoDir \/ KindOf(f1, tmp) = "dir"
           THEN /\ build' = [build EXCEPT ![b] = BuildRaised(@, "OSError")]
                /\ UNCHANGED <<fsVars, mtimes>>
           ELSE /\ KindOf(f1, tmp) = "file" \/ FreeInodes(fs, Fds) # {}
                /\ LET i == IF KindOf(f1, tmp) = "file" THEN f1[tmp].ino
                            ELSE NewIno(fs, Fds)
                   IN  /\ fs' = (tmp :> FileEntry(i)) @@ f1
                       /\ data' = (i :> <<>>) @@ data
                       /\ mtimes' = (i :> clock) @@ mtimes
                       /\ build' = [build EXCEPT ![b].pc = "open", ![b].fd = i]
    /\ UNCHANGED <<guardVars, mcpVars, peer, pipe, wire, clock, cache, store, hs, verdict, item>>

\* line 364: the text is written through the handle, which is then closed
BuildWrite(b) ==
    /\ build[b].pc = "open"
    /\ data' = Collect([data EXCEPT ![build[b].fd] = EnvelopeText(build[b].envelope)],
                       fs, Fds \ {build[b].fd})
    /\ build' = [build EXCEPT ![b].pc = "tmp", ![b].fd = 0]
    /\ UNCHANGED <<fs, guardVars, mcpVars, peer, pipe, wire, cacheVars, verdict, item>>

\* lines 365-380: tmp_path.replace(out_path); return 0
BuildRename(b) ==
    /\ build[b].pc = "tmp"
    /\ LET tmp == EntryPath(fs, AttTmp(b))
           out == EntryPath(fs, AttPath)
       IN  IF tmp = NoDir \/ out = NoDir \/ ~Exists(fs, tmp)
              \/ KindOf(fs, out) = "dir"
           THEN /\ build' = [build EXCEPT ![b] = BuildRaised(@, "OSError")]
                /\ UNCHANGED fsVars
           ELSE /\ fs' = (out :> fs[tmp]) @@ Without(fs, {tmp})
                /\ data' = Collect(data, fs', Fds)
                /\ build' = [build EXCEPT ![b].pc = "done", ![b].exit = 0]
    /\ UNCHANGED <<guardVars, mcpVars, peer, pipe, wire, cacheVars, verdict, item>>

BuildStep(b) ==
    \/ BuildCheck(b) \/ BuildFail(b) \/ BuildSign(b)
    \/ BuildOpen(b) \/ BuildWrite(b) \/ BuildRename(b)

\* cmd_verify --dsse AttPath --pub pub --base base
Verify(pub, base) ==
    /\ \E e \in {FollowPath(fs, AttPath)} :
          IF e = NoDir \/ KindOf(fs, e) # "file"
          THEN /\ verdict' = [seq |-> 1 - verdict.seq, pub |-> pub, base |-> base]
                             @@ [NoVerdict EXCEPT !.ran = TRUE, !.exit = 1,
                                                  !.raised = "FileNotFoundError"]
               /\ UNCHANGED <<cache, store>>
          ELSE IF data[fs[e].ino] = <<>>
          THEN /\ verdict' = [seq |-> 1 - verdict.seq, pub |-> pub, base |-> base]
                             @@ [NoVerdict EXCEPT !.ran = TRUE, !.exit = 1,
                                                  !.raised = "JSONDecodeError"]
               /\ UNCHANGED <<cache, store>>
          ELSE \E r \in {CmdVerify(ReadEnvelope(data[fs[e].ino]), pub,
                                   Realpath(fs, base), cache, store, World)} :
                 /\ verdict' = [seq |-> 1 - verdict.seq, pub |-> pub, base |-> base]
                               @@ r.v
                 /\ cache' = r.c
                 /\ store' = r.st
    /\ UNCHANGED <<fsVars, guardVars, mcpVars, peer, pipe, wire, mtimes, clock, hs, build, item>>

InitProvIdle ==
    /\ item = IdleItem
    /\ build = [b \in Builders |-> IdleBuild]
    /\ verdict = [seq |-> 0, pub |-> PublicKey("key1"), base |-> <<>>] @@ NoVerdict


(***************************************************************************)
(* MCPGuard (runtime_guard.py) and MCPClient (mcp/client.py).              *)
(***************************************************************************)
\* calls one client makes in a run of the model
MaxCalls == 3

Endpoints == {"file", "search", "knowledge", "git", "browser"}
\* the _handle_<endpoint> methods MCPClient defines
Handlers == {"file", "search", "knowledge"}
AllowChoices == {{"file", "git", "search"}, {"knowledge", "browser"}}

\* what the world answers to one call: whether _validate_path accepts the path
\* argument, whether the remote adapter answers, whether the circuit breaker's
\* clock test finds the reset time not yet elapsed
CallInputs == [pathOk : BOOLEAN, remoteOk : BOOLEAN, circuitOpen : BOOLEAN]

Outcome(c, o, r) == [client |-> c, out |-> o, ran |-> r]

\* the local stub: handler(action, *args, **kwargs) (line 117)
StubHandler(c, ep, in, r) ==
    LET r1 == Append(r, <<ep, "stub">>)
    IN  IF ep \in {"file", "search", "knowledge"} /\ ~in.pathOk
        THEN Outcome(c, "ScopeError", r1)
        ELSE Outcome(c, "ok", r1)

\* _dispatch with line 115 left out: the client stays in remote mode
DispatchStaysActive(c, ep, in) ==
    IF ep \notin Handlers THEN Outcome(c, "MCPError", <<>>)
    ELSE IF c.active /\ ep \in {"file", "search"} /\ c.remote
    THEN IF ~in.pathOk THEN Outcome(c, "ScopeError", <<>>)
         ELSE IF c.down /\ c.reset /\ in.circuitOpen
              THEN IF c.strict THEN Outcome(c, "RemoteError", <<>>)
                   ELSE StubHandler([c EXCEPT !.down = TRUE], ep, in, <<>>)
         ELSE IF in.remoteOk
              THEN Outcome([c EXCEPT !.down = FALSE], "ok", <<<<ep, "remote">>>>)
         ELSE IF c.strict
              THEN Outcome(c, "RemoteError", <<<<ep, "remote">>>>)
              ELSE StubHandler([c EXCEPT !.down = TRUE], ep, in, <<<<ep, "remote">>>>)
    ELSE StubHandler(c, ep, in, <<>>)

\* MCPClient._dispatch (lines 90-117)
Dispatch(c, ep, in) ==
    IF ep \notin Handlers THEN Outcome(c, "MCPError", <<>>)
    ELSE IF c.active /\ ep \in {"file", "search"} /\ c.remote
    THEN IF ~in.pathOk THEN Outcome(c, "ScopeError", <<>>)
         ELSE IF c.down /\ c.reset /\ in.circuitOpen
              THEN IF c.strict THEN Outcome(c, "RemoteError", <<>>)
                   ELSE StubHandler([c EXCEPT !.active = FALSE, !.down = TRUE],
                                    ep, in, <<>>)
         ELSE IF in.remoteOk
              THEN Outcome([c EXCEPT !.down = FALSE], "ok", <<<<ep, "remote">>>>)
         ELSE IF c.strict
              THEN Outcome(c, "RemoteError", <<<<ep, "remote">>>>)
              ELSE StubHandler([c EXCEPT !.active = FALSE, !.down = TRUE],
                               ep, in, <<<<ep, "remote">>>>)
    ELSE StubHandler(c, ep, in, <<>>)

\* MCPGuard.wrap with assert_allowed left out
WrappedNoAssert(al, c, ep, in) == Dispatch(c, ep, in)

\* MCPGuard.wrap / _wrapped (lines 132-137)
Wrapped(al, c, ep, in) ==
    IF ep \notin al THEN Outcome(c, "ScopeError", <<>>)
    ELSE Dispatch(c, ep, in)

\* MCPClient.call (lines 83-87)
McpCall(ep, in) ==
    /\ Len(ran) < MaxCalls
    /\ LET o == Wrapped(allowed, client, ep, in)
       IN  /\ client' = o.client
           /\ ran' = ran \o o.ran
           /\ mcpLast' = [ep |-> ep, out |-> o.out]
    /\ UNCHANGED <<allowed, notMcpVars>>

\* MCPClient.__init__ (lines 41-80): stub mode, or remote mode when the adapter
\* could be built
InitClient ==
    /\ allowed \in AllowChoices
    /\ \E rem \in BOOLEAN, st \in BOOLEAN, rs \in BOOLEAN :
          client = [remote |-> rem, active |-> rem, strict |-> st,
                    reset |-> rs, down |-> FALSE]
    /\ ran = <<>>
    /\ mcpLast = [ep |-> "none", out |-> "none"]

\* no client is in use
InitMcpIdle ==
    /\ allowed = {"file"}
    /\ client = [remote |-> FALSE, active |-> FALSE, strict |-> FALSE,
                 reset |-> FALSE, down |-> FALSE]
    /\ ran = <<>>
    /\ mcpLast = [ep |-> "none", out |-> "none"]


(***************************************************************************)
(* The rest of the world: another actor changing the file system.          *)
(***************************************************************************)
PatAll == <<"p", "/", "*">>
PatMd == <<"p", "/", "*", ".", "m">>
ScopeChoices == {<<PatAll>>, <<PatMd>>}

Rel(parts) == [abs |-> FALSE, parts |-> parts]
Requests ==
    { Rel(<<Str1("p"), NameA>>),
      Rel(<<Str1("p"), Str1("n"), NameA>>),
      Rel(<<Str1("q"), NameA>>),
      Rel(<<Str1("q"), DotDot, Str1("p"), NameA>>),
      Rel(<<Str1("s"), NameA>>),
      Rel(<<DotDot, Str1("o"), NameA>>),
      Rel(<<<<"~">>, NameA>>),
      [abs |-> TRUE, parts |-> <<Str1("o"), NameA>>] }

InA == <<Str1("b"), Str1("p"), NameA>>
OutA == <<Str1("o"), NameA>>

\* symlinks the other actor may place: <<where, pointing to>>
EnvLinks ==
    { <<<<Str1("b"), Str1("s")>>, <<Str1("b"), Str1("p")>>>>,
      <<<<Str1("b"), Str1("s")>>, <<Str1("o")>>>>,
      <<<<Str1("b"), Str1("p")>>, <<Str1("o")>>>>,
      <<InA, OutA>> }
    \cup { <<TmpPath(InA, pid[t]), OutA>> : t \in Threads }

\* ln -s: the entry is put in place of whatever was there (a directory that is
\* replaced is moved away with all it holds)
EnvSymlink(l) ==
    /\ IsDirAt(fs, Parent(l[1]))
    /\ KindOf(fs, l[1]) # "link"
    /\ fs' = (l[1] :> LinkEntry(l[2])) @@ Without(fs, {q \in DOMAIN fs : IsPrefix(l[1], q)})
    /\ data' = Collect(data, fs', Fds)
    /\ UNCHANGED <<guardVars, notGuardVars>>

\* a file with earlier content appears
EnvPutFile(p) ==
    /\ IsDirAt(fs, Parent(p))
    /\ ~Exists(fs, p)
    /\ FreeInodes(fs, Fds) # {}
    /\ LET i == NewIno(fs, Fds)
       IN  /\ fs' = (p :> FileEntry(i)) @@ fs
           /\ data' = (i :> OldContent) @@ data
    /\ UNCHANGED <<guardVars, notGuardVars>>

Env == (\E l \in EnvLinks : EnvSymlink(l)) \/ (\E p \in {InA, OutA} : EnvPutFile(p))

(***************************************************************************)
(* Specifications of the guard.                                            *)
(***************************************************************************)
InitFs ==
    (<<Str1("b")>> :> DirEntry) @@ (<<Str1("o")>> :> DirEntry)
    @@ (<<Str1("b"), Str1("p")>> :> DirEntry) @@ (<<Str1("b"), Str1("q")>> :> DirEntry)

\* the guard's writers before any call
InitWriters ==
    /\ pc = [t \in Threads |-> "idle"]
    /\ req = [t \in Threads |-> Rel(<<>>)]
    /\ target = [t \in Threads |-> <<>>]
    /\ fd = [t \in Threads |-> 0]
    /\ off = [t \in Threads |-> 0]
    /\ result = [t \in Threads |-> "none"]

InitGuard ==
    /\ InitMcpIdle
    /\ InitCacheIdle
    /\ InitProvIdle
    /\ fs = InitFs
    /\ data = <<>>
    /\ scopes \in ScopeChoices
    /\ \E p \in Pids : pid = [t \in Threads |-> p]
    /\ InitWriters

\* one guarded write at a time; the file system changes between writes
NextGuard ==
    \/ \E r \in Requests : Quiet /\ Call(1, r)
    \/ Step(1)
    \/ Quiet /\ Env

Spec == InitGuard /\ [][NextGuard]_vars


(***************************************************************************)
(* Claims about the scope check (specification Spec).                      *)
(***************************************************************************)
\* a step in which writer t entered write_text
CallStep(t) ==
    /\ pc[t] = "idle"
    /\ <<pc[t], req[t], result[t], target[t]>>' # <<pc[t], req[t], result[t], target[t]>>

\* C1: assert_write_allowed returns a target only if the target is the resolved
\* request, resolves inside base_dir and its base-relative path matches a write
\* scope; every other call raises ScopeError; and a rename that succeeds puts the
\* content at a target that matches a scope.
C1_TargetInsideScope ==
    [][\A t \in Threads :
        /\ (pc[t] = "idle" /\ pc'[t] = "mkdir") =>
              /\ ~req'[t].abs
              /\ target'[t] = Realpath(fs, BaseDir \o req'[t].parts)
              /\ Realpath(fs, target'[t]) = target'[t]
              /\ InBase(target'[t])
              /\ MatchScopes(scopes, target'[t])
        /\ (CallStep(t) /\ pc'[t] = "idle") => result'[t] = "ScopeError"
        /\ (pc[t] = "rename" /\ result'[t] = "ok") =>
              /\ InBase(target[t]) /\ MatchScopes(scopes, target[t])
              /\ KindOf(fs', target[t]) = KindOf(fs, TmpPath(target[t], pid[t]))
      ]_vars

C1_Witness ==
    \E t \in Threads :
        /\ result[t] = "ok"
        /\ req[t] = Rel(<<Str1("q"), DotDot, Str1("p"), NameA>>)
        /\ KindOf(fs, InA) = "file"
        /\ data[fs[InA].ino] = Complete(t)

Escapes(f, r) ==
    r.abs \/ StartsWithTilde(r) \/ ~InBase(Realpath(f, BaseDir \o r.parts))

\* C2: a guarded write whose path is absolute, starts with "~" or resolves
\* outside base_dir is rejected with ScopeError, in every state of the file
\* system.
C2_EscapeRejected ==
    [][\A t \in Threads :
        (CallStep(t) /\ Escapes(fs, req'[t])) =>
            (result'[t] = "ScopeError" /\ pc'[t] = "idle")
      ]_vars

C2_Witness ==
    \E t \in Threads :
        /\ result[t] = "ScopeError"
        /\ pc[t] = "idle"
        /\ req[t] = Rel(<<DotDot, Str1("o"), NameA>>)
        /\ KindOf(fs, OutA) = "file"

\* some component of the request, walked down from base_dir, is a symlink
HasSymlinkComponent(f, r) ==
    /\ ~r.abs
    /\ \E k \in 1..Len(r.parts) : IsSymlink(f, BaseDir \o SubSeq(r.parts, 1, k))

\* C3: a guarded write is rejected with ScopeError whenever a component of the
\* requested path, an ancestor directory or the target itself, is a symlink.
C3_SymlinkComponentRejected ==
    [][\A t \in Threads :
        (CallStep(t) /\ HasSymlinkComponent(fs, req'[t])) =>
            result'[t] = "ScopeError"
      ]_vars

\* C6: every regular file a guarded write has open for writing, its temporary
\* file included, lies in base_dir at a path that matches a write scope.
C6_WrittenFilesInScope ==
    \A t \in Threads :
        fd[t] # 0 =>
            \A p \in DOMAIN fs :
                (fs[p].kind = "file" /\ fs[p].ino = fd[t]) =>
                    (InBase(p) /\ MatchScopes(scopes, p))


(***************************************************************************)
(* Writers that run at the same time: the threads of run_all's pool.       *)
(***************************************************************************)
ThreadRequests == { Rel(<<Str1("p"), NameA>>), Rel(<<Str1("q"), NameA>>) }

\* the target holds the complete content of an earlier write
InitThreads ==
    /\ InitMcpIdle
    /\ InitCacheIdle
    /\ InitProvIdle
    /\ fs = (InA :> FileEntry(1)) @@ InitFs
    /\ data = (1 :> OldContent)
    /\ scopes = <<PatAll>>
    /\ \E p \in Pids : pid = [t \in Threads |-> p]
    /\ InitWriters

NextThreads ==
    \/ \E t \in Threads : \E r \in ThreadRequests : Call(t, r)
    \/ \E t \in Threads : Step(t)

SpecThreads == InitThreads /\ [][NextThreads]_vars

\* C4: whatever the interleaving of guarded writes, a target holds at every
\* instant its previous complete content or the complete content of one write.
C4_TargetNeverTorn ==
    \A p \in {Realpath(fs, BaseDir \o r.parts) : r \in ThreadRequests} :
        KindOf(fs, p) = "file" =>
            data[fs[p].ino] \in {OldContent} \cup {Complete(t) : t \in Threads}

(***************************************************************************)
(* One writer and another actor who changes the file system while the      *)
(* write is under way, between the scope check and the rename.             *)
(***************************************************************************)
InitRace ==
    /\ InitGuard
    /\ scopes = <<PatAll>>

NextRace ==
    \/ \E r \in Requests : Quiet /\ Call(1, r)
    \/ Step(1)
    \/ ~Quiet /\ Env

SpecRace == InitRace /\ [][NextRace]_vars

WriterChunks == {Chunk(t) : t \in Threads}

\* C5: no bytes of a guarded write land in a file outside base_dir or outside
\* the write scopes, whatever another actor does between check and rename.
C5_NoBytesOutsideScope ==
    \A p \in DOMAIN fs :
        (fs[p].kind = "file" /\ \E i \in 1..Len(data[fs[p].ino]) :
                                    data[fs[p].ino][i] \in WriterChunks)
            => (InBase(p) /\ MatchScopes(scopes, p))


(***************************************************************************)
(* Tool calls through the guard.                                           *)
(***************************************************************************)
InitMcp ==
    /\ InitClient
    /\ InitCacheIdle
    /\ InitProvIdle
    /\ fs = InitFs
    /\ data = <<>>
    /\ scopes = <<PatAll>>
    /\ pid = [t \in Threads |-> 1]
    /\ InitWriters

NextMcp == \E ep \in Endpoints : \E in \in CallInputs : McpCall(ep, in)

SpecMcp == InitMcp /\ [][NextMcp]_vars

\* C7: handler code, local stub or remote adapter, runs only for endpoints in
\* the allowed set; a call to any other endpoint raises ScopeError and runs none.
C7_HandlerOnlyIfAllowed ==
    /\ [](\A i \in 1..Len(ran) : ran[i][1] \in allowed)
    /\ [][\A ep \in Endpoints :
            (mcpLast'.ep = ep /\ ep \notin allowed /\ mcpLast' # mcpLast) =>
                (mcpLast'.out = "ScopeError" /\ ran' = ran /\ client' = client)
         ]_vars

C7_Witness ==
    /\ mcpLast = [ep |-> "knowledge", out |-> "ScopeError"]
    /\ \E i \in 1..Len(ran) : ran[i] = <<"file", "remote">>
    /\ \E i \in 1..Len(ran) : ran[i] = <<"file", "stub">>

(***************************************************************************)
(* sha256_cached while another actor changes the files.                    *)
(***************************************************************************)
DocPath == <<Str1("b"), Str1("d")>>
AltPath == <<Str1("b"), Str1("e")>>
LnkPath == <<Str1("b"), Str1("l")>>

Fill(c) == [i \in 1..ContentLen |-> c]
DocContents == {Fill("x"), Fill("y"), <<"x">>}

\* write(2) into the file at p: same inode, new content, new mtime
FileRewrite(p, c) ==
    /\ clock < MaxClock
    /\ KindOf(fs, p) = "file"
    /\ data[fs[p].ino] # c
    /\ data' = [data EXCEPT ![fs[p].ino] = c]
    /\ clock' = clock + 1
    /\ mtimes' = [mtimes EXCEPT ![fs[p].ino] = clock']
    /\ UNCHANGED <<fs, guardVars, mcpVars, peer, pipe, wire, provVars, cache, store, hs>>

\* a new file is renamed over p
FileReplace(p, c) ==
    /\ clock < MaxClock
    /\ IsDirAt(fs, Parent(p))
    /\ KindOf(fs, p) # "dir"
    /\ FreeInodes(fs, Fds) # {}
    /\ LET i == NewIno(fs, Fds)
       IN  /\ fs' = (p :> FileEntry(i)) @@ fs
           /\ data' = Collect((i :> c) @@ data, fs', Fds)
           /\ clock' = clock + 1
           /\ mtimes' = (i :> clock') @@ mtimes
    /\ UNCHANGED <<guardVars, mcpVars, peer, pipe, wire, provVars, cache, store, hs>>

\* unlink(p)
FileRemove(p) ==
    /\ KindOf(fs, p) \in {"file", "link"}
    /\ fs' = Without(fs, {p})
    /\ data' = Collect(data, fs', Fds)
    /\ UNCHANGED <<guardVars, notGuardVars>>

\* rename(p, q) of a regular file to a free name
FileMove(p, q) ==
    /\ KindOf(fs, p) = "file"
    /\ IsDirAt(fs, Parent(q))
    /\ ~Exists(fs, q)
    /\ fs' = (q :> fs[p]) @@ Without(fs, {p})
    /\ UNCHANGED <<data, guardVars, notGuardVars>>

InitCacheFs ==
    (<<Str1("b")>> :> DirEntry) @@ (DocPath :> FileEntry(1)) @@ (AltPath :> FileEntry(2))
    @@ (LnkPath :> LinkEntry(DocPath))

InitCache ==
    /\ InitMcpIdle
    /\ InitProvIdle
    /\ InitWriters
    /\ scopes = <<PatAll>>
    /\ pid = [t \in Threads |-> 1]
    /\ fs = InitCacheFs
    /\ data = (1 :> Fill("x")) @@ (2 :> Fill("y"))
    /\ mtimes = (1 :> 0) @@ (2 :> 0)
    /\ clock = 0
    /\ cache = ColdCache
    /\ store = AbsentStore
    /\ peer = ColdCache
    /\ pipe = IdlePipe
    /\ wire = IdleWire
    /\ hs = IdleHash

NextCache ==
    \/ \E p \in {DocPath, LnkPath} : HashCall(p)
    \/ HashAdvance
    \/ NewProcess
    \/ \E c \in DocContents : FileRewrite(DocPath, c)
    \/ \E c \in DocContents : FileReplace(DocPath, c)
    \/ FileRemove(DocPath)
    \/ EnvSymlink(<<DocPath, AltPath>>)

SpecCache == InitCache /\ [][NextCache]_vars

\* C10: sha256_cached returns a digest it has just computed only if the file's
\* identity was the same before the open, after the open and after the read;
\* if the identity after the read differs from the one taken before the open,
\* the call raises HashRaceError and returns no digest.
C10_FreshDigestOnlyIfStable ==
    hs.pc = "done" =>
        /\ (hs.out = "digest" /\ hs.fresh) => (hs.pre = hs.start /\ hs.start = hs.end)
        /\ (hs.end # <<>> /\ hs.end # hs.pre) => hs.out = "HashRaceError"

\* the file was replaced between the pre-open stat and the open, and did not
\* change while it was read
C10_Witness ==
    /\ hs.pc = "done"
    /\ hs.out = "HashRaceError"
    /\ hs.start = hs.end
    /\ hs.start # hs.pre

(***************************************************************************)
(* One item of fill_and_check_digests at a time, in processes that follow  *)
(* one another, while another actor changes the files.                     *)
(***************************************************************************)
Subj(n) == Item(Some(n), None, NoDigest)
SubjD(n, d) == Item(Some(n), None, [has |-> TRUE, sha256 |-> Sha(d)])
RemoteName == <<"s", ":", "/", "/", "x">>

FillItemsTried ==
    { <<"subject", Subj(Str1("d"))>>,
      <<"subject", SubjD(Str1("d"), HexDigest(Fill("x")))>>,
      <<"subject", Subj(Str1("l"))>>,
      <<"material", Item(None, Some(Str1("d")), NoDigest)>>,
      <<"material", SubjD(RemoteName, HexDigest(<<"r">>))>> }

NextFill ==
    \/ \E k \in FillItemsTried : ItemBegin(k[1], BaseDir, k[2])
    \/ HashAdvance
    \/ ItemEnd
    \/ item.pc # "hash" /\ NewProcess
    \/ \E c \in {Fill("x"), Fill("y")} : FileRewrite(DocPath, c)
    \/ \E c \in {Fill("x"), Fill("y")} : FileReplace(DocPath, c)
    \/ EnvSymlink(<<DocPath, AltPath>>)

SpecFill == InitCache /\ [][NextFill]_vars

\* the item has been hashed and accepted: its digest matched or was filled in
ItemAccepted ==
    /\ item.pc = "done"
    /\ hs.pc = "done"
    /\ item.errors = <<>>
    /\ item.raised = "none"

\* C11: a digest is accepted as matching, or filled in, only if the pre-open,
\* post-open and post-read identities agreed in the computation that produced
\* it: the digest comes from a computation of this call whose three identities
\* agree, or from a cache entry for the identity seen now; and every cache
\* entry, in memory or in the persisted store, was put there by a computation
\* whose three identities agreed, or was loaded from the store.
C11_AcceptedDigestWasChecked ==
    [][ /\ (item.pc = "hash" /\ ItemAccepted') =>
              /\ hs.out = "digest"
              /\ item'.item.digest.sha256.has
              /\ Lower(item'.item.digest.sha256.v) = hs.digest
              /\ hs.fresh => (hs.pre = hs.start /\ hs.start = hs.end)
              /\ ~hs.fresh =>
                    /\ hs.key \in DOMAIN cache.entries
                    /\ cache.entries[hs.key] = [meta |-> hs.pre, sha |-> hs.digest]
        /\ \A k \in DOMAIN cache'.entries :
              (k \notin DOMAIN cache.entries \/ cache'.entries[k] # cache.entries[k])
              => \/ /\ hs.pc = "eof"
                    /\ k = hs.key
                    /\ hs.pre = hs.start
                    /\ hs.start = MetaOfIno(World, hs.fd)
                    /\ cache'.entries[k] = [meta |-> hs.start, sha |-> HexDigest(hs.acc)]
                 \/ /\ ~cache.loaded
                    /\ k \in DOMAIN store.entries
                    /\ cache'.entries[k] = store.entries[k]
        /\ \A k \in DOMAIN store'.entries :
              (k \notin DOMAIN store.entries \/ store'.entries[k] # store.entries[k])
              => (k \in DOMAIN cache'.entries /\ store'.entries[k] = cache'.entries[k])
      ]_vars

\* a new process accepted a recorded digest on the strength of an entry it
\* loaded from the store, without reading the file
C11_Witness ==
    /\ ItemAccepted
    /\ ~hs.fresh
    /\ hs.start = <<>>
    /\ store.state = "valid"
    /\ hs.key \in DOMAIN store.entries
    /\ item.item = SubjD(Str1("d"), HexDigest(Fill("x")))

(***************************************************************************)
(* Build and verify of one artifact while its subject file is edited.      *)
(***************************************************************************)
Header(t, pt, subj, mats) ==
    [EmptyHeader EXCEPT !.type = t, !.predicateType = pt, !.subject = subj,
                        !.predicate = [materials |-> mats]]
TypeV1 == "https://in-toto.io/Statement/v1"
PolicyType == "https://accord.ai/schemas/policy@v1"

GoodHeaders ==
    { Header(TypeV1, PolicyType, <<Subj(Str1("d"))>>, None),
      [Header(TypeV1, PolicyType, <<SubjD(Str1("d"), [HexDigest(Fill("x")) EXCEPT !.upper = TRUE])>>, None)
          EXCEPT !.materials = Some(<<Item(None, Some(Str1("e")), NoDigest)>>)],
      Header(TypeV1, PolicyType, <<Subj(Str1("e")), Item(None, Some(Str1("d")), NoDigest)>>,
             Some(<<SubjD(RemoteName, HexDigest(<<"r">>)), Subj(Str1("d"))>>)),
      [EmptyHeader EXCEPT !.statement_type = "https://in-toto.io/Statement/v0.1",
                          !.predicate_type = PolicyType,
                          !.subject = <<SubjD(Str1("d"), HexDigest(Fill("x")))>>] }

BadHeaders ==
    { Header(TypeV1, PolicyType, <<SubjD(Str1("d"), HexDigest(Fill("y")))>>, None),
      Header("https://in-toto.io/Statement/v2", PolicyType, <<Subj(Str1("d"))>>, None),
      Header(TypeV1, "http://accord.ai", <<Subj(Str1("z"))>>, None),
      Header(TypeV1, PolicyType, <<>>, None),
      Header(TypeV1, PolicyType, <<Item(None, None, NoDigest), Subj(Str1("d"))>>, None),
      Header(TypeV1, PolicyType, <<Subj(<<"/">> \o Str1("o"))>>, None),
      Header(TypeV1, PolicyType, <<Subj(Str1("l"))>>, None),
      Header(TypeV1, PolicyType, <<Subj(Str1("d"))>>, Some(<<Subj(RemoteName)>>)) }

Artifacts ==
    { <<Block(TRUE, "mapping", "wrapped", h)>> : h \in GoodHeaders \cup BadHeaders }
    \cup { <<>>,
           <<Block(FALSE, "mapping", "wrapped", EmptyHeader),
             Block(TRUE, "scalar", "wrapped", EmptyHeader),
             Block(TRUE, "mapping", "legacy",
                   Header(TypeV1, PolicyType, <<Subj(Str1("d"))>>, None))>>,
           <<Block(TRUE, "mapping", "other", EmptyHeader)>> }

InitProv ==
    /\ InitMcpIdle
    /\ InitWriters
    /\ InitProvIdle
    /\ scopes = <<PatAll>>
    /\ pid = [t \in Threads |-> 1]
    /\ \E art \in Artifacts :
          /\ fs = (ArtPath :> FileEntry(3)) @@ (OutDir :> DirEntry) @@ InitCacheFs
          /\ data = (1 :> Fill("x")) @@ (2 :> Fill("y")) @@ (3 :> art)
    /\ mtimes = (1 :> 0) @@ (2 :> 0) @@ (3 :> 0)
    /\ clock = 0
    /\ cache = ColdCache
    /\ store = AbsentStore
    /\ peer = ColdCache
    /\ pipe = IdlePipe
    /\ wire = IdleWire
    /\ hs = IdleHash

\* no command is running
Settled == \A b \in Builders : build[b].pc \in {"idle", "done"}

\* the commands run one after the other, each possibly in a new process; the
\* subject file is edited between them
NextProv ==
    \/ \E priv \in PrivKeys : BuildStart(1, BaseDir, priv)
    \/ BuildStep(1)
    \/ \E pub \in {PublicKey(k) : k \in PrivKeys} : \E base \in {BaseDir, OutDir} : Settled /\ Verify(pub, base)
    \/ \E c \in {Fill("x"), Fill("y")} : Settled /\ FileRewrite(DocPath, c)
    \/ Settled /\ NewProcess

SpecProv == InitProv /\ [][NextProv]_vars

\* the files a statement of the model can name
WatchedPaths == {DocPath, AltPath, LnkPath}
\* no watched file was written, replaced or removed since the snapshot
Unchanged(snap, w) ==
    \A p \in WatchedPaths :
        /\ (p \in DOMAIN snap.fs) = (p \in DOMAIN w.fs)
        /\ p \in DOMAIN w.fs =>
              /\ snap.fs[p] = w.fs[p]
              /\ w.fs[p].kind = "file" =>
                    /\ snap.data[w.fs[p].ino] = w.data[w.fs[p].ino]
                    /\ snap.mt[w.fs[p].ino] = w.mt[w.fs[p].ino]

EnvelopeAt(f, d, p) ==
    IF KindOf(f, p) = "file" /\ d[f[p].ino] # <<>> THEN ReadEnvelope(d[f[p].ino])
    ELSE NoEnvelope

AllOk(v) ==
    /\ v.raised = "none"
    /\ v.signature_ok /\ v.schema_ok /\ v.digest_ok
    /\ v.error_code = "OK"
    /\ v.exit = 0

\* C8: when a build has succeeded and no subject or material file has changed
\* since that build started, a verify of the envelope it wrote, run with the
\* public half of the signing key and the same base directory, reports
\* signature_ok, schema_ok and digest_ok true, error_code OK and exit status 0.
C8_BuildThenVerifyOk ==
    [][\A b \in Builders :
          ( /\ verdict'.seq # verdict.seq
            /\ build[b].pc = "done" /\ build[b].exit = 0
            /\ EnvelopeAt(fs, data, AttPath) = build[b].envelope
            /\ Unchanged(build[b].snap, World)
            /\ verdict'.pub = PublicKey(build[b].priv)
            /\ verdict'.base = build[b].base )
          => AllOk(verdict')
      ]_vars

\* a build of a statement with two subjects and two materials, written out of
\* name order, was verified by a new process
C8_Witness ==
    /\ build[1].pc = "done" /\ build[1].exit = 0
    /\ Len(build[1].statement.subject) = 2
    /\ Unchanged(build[1].snap, World)
    /\ verdict.pub = PublicKey(build[1].priv)
    /\ verdict.base = build[1].base
    /\ AllOk(verdict)

\* C9: a build run holds a signed envelope, or has written one, only if schema
\* validation and fill_and_check_digests both returned no errors in that run;
\* a run in which either returned an error ends with exit status 1, signs
\* nothing and leaves the output path as it was.
C9_SignOnlyAfterChecks ==
    /\ [](\A b \in Builders :
             (build[b].envelope # NoEnvelope \/ build[b].pc \in {"signed", "open", "tmp"}
                 \/ build[b].exit = 0)
             => (build[b].schema_errors = <<>> /\ build[b].digest_errors = <<>>
                 /\ build[b].statement # NoStatement))
    /\ [][\A b \in Builders :
             /\ ( /\ build[b].pc = "checked" /\ build'[b] # build[b]
                  /\ (build[b].schema_errors # <<>> \/ build[b].digest_errors # <<>>) )
                => ( /\ build'[b].pc = "done" /\ build'[b].exit = 1
                     /\ build'[b].envelope = NoEnvelope
                     /\ fs' = fs /\ data' = data )
             /\ (build[b].pc # "tmp" /\ build'[b] # build[b])
                => EnvelopeAt(fs', data', AttPath) = EnvelopeAt(fs, data, AttPath)
         ]_vars

\* after a build that wrote an envelope, the subject was edited and the next
\* run failed on the digest alone: it exited 1 and the envelope is the old one
C9_Witness ==
    /\ build[1].pc = "done" /\ build[1].exit = 1
    /\ build[1].schema_errors = <<>> /\ build[1].digest_errors # <<>>
    /\ build[1].envelope = NoEnvelope
    /\ EnvelopeAt(fs, data, AttPath) # NoEnvelope

(***************************************************************************)
(* Builds of one artifact that run at the same time, each in a process of  *)
(* its own, and write the same output path.                                *)
(***************************************************************************)
ValidArtifact ==
    /\ KindOf(fs, ArtPath) = "file"
    /\ data[fs[ArtPath].ino] \in {<<Block(TRUE, "mapping", "wrapped", h)>> : h \in GoodHeaders}

InitBuilds ==
    /\ InitMcpIdle
    /\ InitWriters
    /\ InitProvIdle
    /\ scopes = <<PatAll>>
    /\ pid = [t \in Threads |-> 1]
    /\ \E h \in GoodHeaders \cup {Header(TypeV1, PolicyType, <<Subj(Str1("z"))>>, None)} :
          /\ fs = (ArtPath :> FileEntry(3)) @@ InitCacheFs
          /\ data = (1 :> Fill("x")) @@ (2 :> Fill("y"))
                    @@ (3 :> <<Block(TRUE, "mapping", "wrapped", h)>>)
    /\ mtimes = (1 :> 0) @@ (2 :> 0) @@ (3 :> 0)
    /\ clock = 0
    /\ cache = ColdCache
    /\ store = AbsentStore
    /\ peer = ColdCache
    /\ pipe = IdlePipe
    /\ wire = IdleWire
    /\ hs = IdleHash

\* every command starts with the cache of its own process, which is empty
NextBuilds ==
    \/ \E b \in Builders : \E priv \in PrivKeys :
          build[b].pc = "idle" /\ BuildStart(b, BaseDir, priv)
    \/ \E b \in Builders : ~cache.loaded /\ BuildCheck(b)
    \/ \E b \in Builders : BuildFail(b)
    \/ \E b \in Builders : BuildSign(b)
    \/ \E b \in Builders : BuildOpen(b)
    \/ \E b \in Builders : BuildWrite(b)
    \/ \E b \in Builders : BuildRename(b)
    \/ NewProcess
    \/ \E pub \in {PublicKey(k) : k \in PrivKeys} : ~cache.loaded /\ Verify(pub, BaseDir)

SpecBuilds == InitBuilds /\ [][NextBuilds]_vars

\* the invocations that have renamed their envelope onto the output path
Renamed1 == {b \in Builders : build[b].pc = "done" /\ build[b].exit = 0}

\* C12: of the builds of one valid artifact that run at the same time and
\* write the same output path, every one ends with exit status 0; from the
\* first rename on, the output file holds the whole envelope of one of the
\* invocations that have renamed, and a verify with that invocation's public
\* key reports OK.
C12_ConcurrentBuildsSucceed ==
    /\ [](ValidArtifact =>
            /\ \A b \in Builders :
                  build[b].pc = "done" => (build[b].exit = 0 /\ build[b].raised = "none")
            /\ Renamed1 # {} =>
                  /\ KindOf(fs, AttPath) = "file"
                  /\ \E b \in Renamed1 :
                        data[fs[AttPath].ino] = EnvelopeText(build[b].envelope))
    /\ [][(ValidArtifact /\ Renamed1 # {} /\ verdict'.seq # verdict.seq
              /\ \E b \in Renamed1 :
                    /\ EnvelopeAt(fs, data, AttPath) = build[b].envelope
                    /\ verdict'.pub = PublicKey(build[b].priv))
          => AllOk(verdict')]_vars

\* both invocations have renamed, with different keys, the second while the
\* first one's envelope was in place, and the file verified
C12_Witness ==
    /\ Renamed1 = Builders
    /\ build[1].priv # build[2].priv
    /\ EnvelopeAt(fs, data, AttPath) = build[2].envelope
    /\ verdict.pub = PublicKey(build[2].priv)
    /\ AllOk(verdict)

(***************************************************************************)
(* dsse_sign on a statement and on the same statement with its subjects    *)
(* and materials in another order.                                         *)
(***************************************************************************)
\* items as fill_and_check_digests leaves them: named, with a sha256 digest
SignItems ==
    { SubjD(Str1("d"), HexDigest(Fill("x"))),
      SubjD(Str1("d"), [HexDigest(Fill("x")) EXCEPT !.upper = TRUE]),
      SubjD(Str1("e"), HexDigest(Fill("y"))),
      SubjD(RemoteName, HexDigest(<<"r">>)) }

SignLists == UNION {[1..n -> SignItems] : n \in 1..2}

\* the orders a list can be written in
Permuted(l) ==
    { [i \in 1..Len(l) |-> l[p[i]]] :
        p \in {q \in [1..Len(l) -> 1..Len(l)] : \A i, j \in 1..Len(l) : q[i] = q[j] => i = j} }

SignStatement(subj, mats) ==
    [type |-> TypeV1, predicateType |-> PolicyType, subject |-> subj,
     predicate |-> [materials |-> mats]]

InitSign ==
    /\ InitMcpIdle
    /\ InitWriters
    /\ InitCacheIdle
    /\ scopes = <<PatAll>>
    /\ pid = [t \in Threads |-> 1]
    /\ fs = InitCacheFs
    /\ data = (1 :> Fill("x")) @@ (2 :> Fill("y"))
    /\ item = IdleItem
    /\ verdict = [seq |-> 0, pub |-> PublicKey("key1"), base |-> <<>>] @@ NoVerdict
    /\ \E subj \in SignLists : \E mats \in SignLists : \E hasMats \in BOOLEAN :
       \E subj2 \in Permuted(subj) : \E mats2 \in Permuted(mats) :
          build = [b \in Builders |->
                     [IdleBuild EXCEPT
                        !.pc = "checked", !.base = BaseDir, !.priv = "key1",
                        !.statement =
                            IF b = 1
                            THEN SignStatement(subj, IF hasMats THEN Some(mats) ELSE None)
                            ELSE SignStatement(subj2, IF hasMats THEN Some(mats2) ELSE None)]]

NextSign == \E b \in Builders : BuildSign(b)

SpecSign == InitSign /\ [][NextSign]_vars

\* C13: a statement and the same statement with its subject list and its
\* materials list permuted, signed with the same key, give the same payload.
C13_PermutedPayloadsEqual ==
    (build[1].pc = "signed" /\ build[2].pc = "signed")
        => build[1].envelope.payload = build[2].envelope.payload

(***************************************************************************)
(* verify on envelopes of every kind: signed by either key, with the type  *)
(* or the payload altered, over statements whose files are in order or not.*)
(***************************************************************************)
WordsName == <<"a", "l", "l", "o", "w", "e", "d", "p", "a", "t", "h", "s">>
WordsPath == <<Str1("b"), WordsName>>
OtherType == "text/plain"

VerifyStatements ==
    { SignStatement(<<SubjD(Str1("d"), HexDigest(Fill("x")))>>, None),
      SignStatement(<<SubjD(Str1("d"), HexDigest(Fill("y")))>>, None),
      SignStatement(<<SubjD(Str1("l"), HexDigest(Fill("x"))),
                      SubjD(Str1("d"), HexDigest(Fill("y")))>>, None),
      SignStatement(<<SubjD(<<"/", "o">>, HexDigest(Fill("x"))),
                      SubjD(Str1("d"), HexDigest(Fill("y")))>>, None),
      SignStatement(<<SubjD(<<".", ".", "/", "o">>, HexDigest(Fill("x")))>>, None),
      SignStatement(<<SubjD(Str1("z"), HexDigest(Fill("x"))),
                      SubjD(WordsName, HexDigest(Fill("y")))>>, None),
      [SignStatement(<<SubjD(Str1("d"), HexDigest(Fill("y")))>>, None)
          EXCEPT !.type = "https://in-toto.io/Statement/v2"],
      SignStatement(<<SubjD(Str1("q"), HexDigest(Fill("x")))>>, None),
      SignStatement(<<SubjD(Str1("d"), HexDigest(Fill("x")))>>, Some(<<Subj(RemoteName)>>)),
      SignStatement(<<SubjD(Str1("d"), HexDigest(Fill("x")))>>,
                    Some(<<SubjD(Str1("e"), HexDigest(Fill("y"))),
                           SubjD(RemoteName, HexDigest(<<"r">>))>>)) }

\* the envelope with another payloadType, its signature left as it was
Retyped(envelope, t) == [envelope EXCEPT !.payloadType = t]
\* the envelope with another payloadType, signed over the encoding of that type
SignedAs(envelope, t, priv) ==
    [envelope EXCEPT !.payloadType = t,
                     !.signatures[1].sig =
                         B64Encode(Sign(priv, Pae(t, B64Decode(envelope.payload))))]
\* the envelope with another payload, its signature left as it was
Repayloaded(envelope, s) == [envelope EXCEPT !.payload = B64Encode(JsonStatement(s))]

Envelopes ==
    { DsseSign(s, "key1") : s \in VerifyStatements }
    \cup { Retyped(DsseSign(s, "key1"), OtherType) : s \in VerifyStatements }
    \cup { SignedAs(DsseSign(s, "key1"), OtherType, "key1") : s \in VerifyStatements }
    \cup { Repayloaded(DsseSign(SignStatement(<<SubjD(Str1("e"), HexDigest(Fill("y")))>>,
                                                None), "key1"), s) :
               s \in VerifyStatements }

InitVerify ==
    /\ InitMcpIdle
    /\ InitWriters
    /\ InitProvIdle
    /\ scopes = <<PatAll>>
    /\ pid = [t \in Threads |-> 1]
    /\ fs = (Parent(AttPath) :> DirEntry) @@ (AttPath :> FileEntry(3))
            @@ (WordsPath :> FileEntry(4)) @@ InitCacheFs
    /\ \E envelope \in Envelopes :
          data = (1 :> Fill("x")) @@ (2 :> Fill("y")) @@ (3 :> EnvelopeText(envelope))
                 @@ (4 :> Fill("x"))
    /\ mtimes = (1 :> 0) @@ (2 :> 0) @@ (3 :> 0) @@ (4 :> 0)
    /\ clock = 0
    /\ cache = ColdCache
    /\ store = AbsentStore
    /\ peer = ColdCache
    /\ pipe = IdlePipe
    /\ wire = IdleWire
    /\ hs = IdleHash

NextVerify ==
    \/ \E pub \in {PublicKey(k) : k \in PrivKeys} : Verify(pub, BaseDir)
    \/ \E c \in {Fill("x"), Fill("y")} : FileRewrite(DocPath, c)
    \/ NewProcess

SpecVerify == InitVerify /\ [][NextVerify]_vars

\* C14: verify of an envelope whose payloadType is not PAYLOAD_TYPE reports
\* signature_ok false (with error_code SIG_INVALID) and ends with status 1,
\* also when the signature is valid over the encoding of the type it carries.
C14_OtherTypeRejected ==
    [][(verdict'.seq # verdict.seq
           /\ EnvelopeAt(fs, data, AttPath).payloadType # PAYLOAD_TYPE)
       => ( /\ verdict'.raised = "none"
            /\ ~verdict'.signature_ok
            /\ verdict'.error_code = "SIG_INVALID"
            /\ verdict'.exit = 1 )]_vars

\* an envelope typed text/plain and signed over the encoding of that type was
\* verified with the signer's public key, and rejected
C14_Witness ==
    /\ verdict.ran
    /\ ~verdict.signature_ok
    /\ verdict.exit = 1
    /\ EnvelopeAt(fs, data, AttPath).payloadType = OtherType
    /\ VerifySignature(verdict.pub,
                       B64Decode(EnvelopeAt(fs, data, AttPath).signatures[1].sig),
                       Pae(OtherType, B64Decode(EnvelopeAt(fs, data, AttPath).payload)))

ErrorCodes ==
    {"SIG_INVALID", "SCHEMA_INVALID", "HASH_RACE", "PATH_FORBIDDEN", "DIGEST_MISMATCH",
     "DIGEST_INVALID", "UNKNOWN_ERROR"}

\* C15: a run of verify ends with status 0 exactly when signature_ok, schema_ok
\* and digest_ok are all true, which is exactly when error_code is OK; every
\* other run ends with status 1 and reports an error_code other than OK.
C15_ExitMatchesReport ==
    verdict.ran =>
        /\ (verdict.exit = 0) <=>
              (verdict.signature_ok /\ verdict.schema_ok /\ verdict.digest_ok)
        /\ (verdict.signature_ok /\ verdict.schema_ok /\ verdict.digest_ok) <=>
              (verdict.error_code = "OK")
        /\ verdict.exit # 0 => (verdict.exit = 1 /\ verdict.error_code \in ErrorCodes)

\* what went wrong with one item, by the check that rejected it
RejectedByPathPolicy(e) ==
    e.text \in {"absolute or home path not allowed", "symlink not allowed",
                "path escapes base_dir"}
RejectedByRace(e) == e.text = "file changed during hashing"
RejectedByMismatch(e) ==
    e.text \in {"subject digest mismatch for", "materials digest mismatch for"}

\* the first kind of failure that applies, in the order of the codes
FirstApplicable(v) ==
    IF ~v.signature_ok THEN "SIG_INVALID"
    ELSE IF v.schema_errors # <<>> THEN "SCHEMA_INVALID"
    ELSE IF \E i \in 1..Len(v.digest_errors) : RejectedByRace(v.digest_errors[i])
    THEN "HASH_RACE"
    ELSE IF \E i \in 1..Len(v.digest_errors) : RejectedByPathPolicy(v.digest_errors[i])
    THEN "PATH_FORBIDDEN"
    ELSE IF \E i \in 1..Len(v.digest_errors) : RejectedByMismatch(v.digest_errors[i])
    THEN "DIGEST_MISMATCH"
    ELSE "DIGEST_INVALID"

\* C16: when a run of verify finds several things wrong, its error_code is the
\* first that applies in the order SIG_INVALID, SCHEMA_INVALID, HASH_RACE,
\* PATH_FORBIDDEN, DIGEST_MISMATCH, DIGEST_INVALID; a failed signature check
\* gives SIG_INVALID whatever else is wrong with the envelope.
C16_FirstApplicableCode ==
    (verdict.ran /\ verdict.raised = "none")
    => /\ ~verdict.signature_ok => verdict.error_code = "SIG_INVALID"
       /\ Len(verdict.schema_errors) + Len(verdict.digest_errors) >= 2
             => verdict.error_code = FirstApplicable(verdict)


(***************************************************************************)
(* Build of artifacts whose items are named in every way: inside and       *)
(* outside the base directory, through symlinks, remote, with a digest or  *)
(* without, a file or a directory.                                         *)
(***************************************************************************)
InLinkPath == <<Str1("b"), Str1("n")>>
OutLinkPath == <<Str1("b"), Str1("m")>>
OutFilePath == <<Str1("o"), Str1("x")>>

AbsName == <<"/", "o", "/", "x">>
HomeName == <<"~", "/", "x">>
UpName == <<".", ".", "/", "o", "/", "x">>
OutLinkName == <<"m", "/", "x">>
InLinkDoc == <<"n", "/", "d">>
InLinkAlt == <<"n", "/", "e">>

PathHeaders ==
    { Header(TypeV1, PolicyType, <<SubjD(Str1("d"), HexDigest(Fill("y")))>>, None),
      Header(TypeV1, PolicyType, <<Subj(Str1("d"))>>,
             Some(<<SubjD(Str1("e"), HexDigest(Fill("x")))>>)),
      Header(TypeV1, PolicyType,
             <<SubjD(Str1("d"), [HexDigest(Fill("x")) EXCEPT !.upper = TRUE])>>,
             Some(<<SubjD(RemoteName, HexDigest(<<"r">>))>>)),
      Header(TypeV1, PolicyType, <<Subj(Str1("d"))>>, Some(<<Subj(RemoteName)>>)),
      Header(TypeV1, PolicyType, <<Subj(AbsName), Subj(HomeName)>>, None),
      Header(TypeV1, PolicyType, <<Subj(UpName), Subj(OutLinkName)>>, None),
      Header(TypeV1, PolicyType, <<Subj(Str1("d"))>>,
             Some(<<Subj(AbsName), Subj(UpName), Item(None, Some(OutLinkName), NoDigest)>>)),
      Header(TypeV1, PolicyType, <<Subj(Str1("l"))>>, Some(<<Subj(Str1("l"))>>)),
      Header(TypeV1, PolicyType, <<Subj(InLinkDoc)>>, Some(<<Subj(InLinkAlt)>>)),
      Header(TypeV1, PolicyType,
             <<SubjD(Str1("d"), HexDigest(Fill("y"))), Subj(AbsName), Subj(Str1("."))>>,
             Some(<<Subj(RemoteName)>>)),
      Header("https://in-toto.io/Statement/v2", PolicyType,
             <<Subj(Str1("z")), SubjD(Str1("d"), HexDigest(Fill("y")))>>,
             Some(<<Subj(Str1("l"))>>)) }

InitPaths ==
    /\ InitMcpIdle
    /\ InitWriters
    /\ InitProvIdle
    /\ scopes = <<PatAll>>
    /\ pid = [t \in Threads |-> 1]
    /\ \E h \in PathHeaders :
          /\ fs = (ArtPath :> FileEntry(3)) @@ (OutDir :> DirEntry)
                  @@ (OutFilePath :> FileEntry(4))
                  @@ (InLinkPath :> LinkEntry(BaseDir))
                  @@ (OutLinkPath :> LinkEntry(OutDir)) @@ InitCacheFs
          /\ data = (1 :> Fill("x")) @@ (2 :> Fill("y"))
                    @@ (3 :> <<Block(TRUE, "mapping", "wrapped", h)>>)
                    @@ (4 :> Fill("x"))
    /\ mtimes = (1 :> 0) @@ (2 :> 0) @@ (3 :> 0) @@ (4 :> 0)
    /\ clock = 0
    /\ cache = ColdCache
    /\ store = AbsentStore
    /\ peer = ColdCache
    /\ pipe = IdlePipe
    /\ wire = IdleWire
    /\ hs = IdleHash

SpecPaths == InitPaths /\ [][NextProv]_vars

\* the statement the run of builder b read from the artifact, before any
\* digest was filled in
Declared(b) ==
    NormalizeToStatement(
        ExtractHeader(build[b].snap.data[build[b].snap.fs[ArtPath].ino]).header)

\* the run of builder b is over and it had read a statement
Ran(b) ==
    /\ build[b].pc = "done"
    /\ KindOf(build[b].snap.fs, ArtPath) = "file"
    /\ ExtractHeader(build[b].snap.data[build[b].snap.fs[ArtPath].ino]).ok

\* the places of the statement: every subject and every material
Places(b) ==
    { [kind |-> "subject", i |-> i] : i \in 1..Len(Declared(b).subject) }
    \cup { [kind |-> "material", i |-> i] : i \in 1..Len(Materials(Declared(b))) }

ItemAt(b, pl) ==
    IF pl.kind = "subject" THEN Declared(b).subject[pl.i]
    ELSE Materials(Declared(b))[pl.i]

\* the name the item goes by: a material may give it as uri
NameAt(b, pl) ==
    IF Truthy(ItemAt(b, pl).name) THEN ItemAt(b, pl).name.v ELSE ItemAt(b, pl).uri.v

HasSha(it) == it.digest.has /\ it.digest.sha256.has

\* the digests _sha256 returned for the item at place pl in the run
HashedAt(b, pl) ==
    { build[b].hashed[k].sha256 : k \in
        { j \in 1..Len(build[b].hashed) :
            build[b].hashed[j].kind = pl.kind /\ build[b].hashed[j].i = pl.i } }

\* the error list of cmd_build names the item with this text
Listed(b, text, name) ==
    \E k \in 1..Len(build[b].errors) :
        build[b].errors[k].text = text /\ build[b].errors[k].name = name

ListedAny(b, name) ==
    \E k \in 1..Len(build[b].errors) : build[b].errors[k].name = name

\* the run wrote no envelope: it signed none and the output path is as it was
NothingWritten(b) ==
    /\ build[b].envelope = NoEnvelope
    /\ fs = build[b].snap.fs
    /\ EnvelopeAt(fs, data, AttPath)
           = EnvelopeAt(build[b].snap.fs, build[b].snap.data, AttPath)

\* the recorded digest of the item at pl differs, whatever the case of its
\* letters, from a digest computed for its file in the run
Mismatch(b, pl) ==
    /\ HasSha(ItemAt(b, pl))
    /\ \E a \in HashedAt(b, pl) : Lower(ItemAt(b, pl).digest.sha256.v) # Lower(a)

MismatchHandled(b, pl) ==
    /\ build[b].exit = 1
    /\ Listed(b, MismatchText(pl.kind), NameAt(b, pl))
    /\ NothingWritten(b)

\* C17: if any local subject or material carries a sha256 digest that differs
\* (compared case-insensitively) from the digest computed for its file, build
\* exits 1, its error list contains a digest-mismatch error naming that item,
\* and no envelope is written.
C17_MismatchListed ==
    \A b \in Builders :
        Ran(b) => \A pl \in Places(b) : Mismatch(b, pl) => MismatchHandled(b, pl)

\* the same in the runs that no exception ended
C17_UnlessRaised ==
    \A b \in Builders :
        (Ran(b) /\ build[b].raised = "none")
            => \A pl \in Places(b) : Mismatch(b, pl) => MismatchHandled(b, pl)

\* the material at pl is remote
RemoteAt(b, pl) ==
    /\ pl.kind = "material"
    /\ ItemAt(b, pl).name.has \/ ItemAt(b, pl).uri.has
    /\ IsRemote(NameAt(b, pl))

\* nothing but the item at pl is wrong with the statement
AllElseValid(b, pl) ==
    /\ build[b].raised = "none"
    /\ \A k \in 1..Len(build[b].errors) : build[b].errors[k].name = NameAt(b, pl)

RemoteHandled(b, pl) ==
    /\ HashedAt(b, pl) = {}
    /\ \A k \in 1..Len(build[b].errors) :
          build[b].errors[k].name = NameAt(b, pl)
              => build[b].errors[k].text = "remote material requires digest"
    /\ ~HasSha(ItemAt(b, pl))
          => /\ build[b].exit = 1
             /\ Listed(b, "remote material requires digest", NameAt(b, pl))
    /\ (HasSha(ItemAt(b, pl)) /\ AllElseValid(b, pl)) => build[b].exit = 0

\* C18: a material whose name matches a URI scheme is never resolved against
\* the filesystem or hashed: build fails with a 'remote material requires
\* digest' error if it has no sha256 digest, and, all else being valid, build
\* succeeds if it has one.
C18_RemoteNeverHashed ==
    \A b \in Builders :
        Ran(b) => \A pl \in Places(b) : RemoteAt(b, pl) => RemoteHandled(b, pl)

\* the same in the runs that no exception ended
C18_UnlessRaised ==
    \A b \in Builders :
        (Ran(b) /\ build[b].raised = "none")
            => \A pl \in Places(b) : RemoteAt(b, pl) => RemoteHandled(b, pl)

\* the item at pl is a subject or a local material
LocalAt(b, pl) ==
    /\ ItemAt(b, pl).name.has \/ ItemAt(b, pl).uri.has
    /\ NameAt(b, pl) # <<>>
    /\ ~RemoteAt(b, pl)

\* the path the name stands for, as the run found the file system
PathAt(b, pl) == Realpath(build[b].snap.fs, build[b].base) \o PathParts(NameAt(b, pl))

\* the name is absolute, home-relative, or resolves outside base_dir
Forbidden(b, pl) ==
    \/ Head(NameAt(b, pl)) \in {"/", "~"}
    \/ ~IsPrefix(Realpath(build[b].snap.fs, build[b].base),
                 Realpath(build[b].snap.fs, PathAt(b, pl)))

Refused(b, pl) ==
    /\ HashedAt(b, pl) = {}
    /\ ListedAny(b, NameAt(b, pl))

\* C19: fill_and_check_digests never hashes or accepts a subject or local
\* material whose name is absolute, home-relative, or resolves outside
\* base_dir: each such name yields an error, and build exits 1 without
\* writing an envelope.
C19_ForbiddenNamesRefused ==
    \A b \in Builders :
        Ran(b) => \A pl \in Places(b) :
            (LocalAt(b, pl) /\ Forbidden(b, pl))
                => (Refused(b, pl) /\ build[b].exit = 1 /\ NothingWritten(b))

\* the same in the runs that no exception ended
C19_UnlessRaised ==
    \A b \in Builders :
        (Ran(b) /\ build[b].raised = "none") => \A pl \in Places(b) :
            (LocalAt(b, pl) /\ Forbidden(b, pl))
                => (Refused(b, pl) /\ build[b].exit = 1 /\ NothingWritten(b))

\* some component of the path, the last one or a directory before it, is a
\* symlink
ThroughSymlink(b, pl) ==
    \E k \in 1..Len(PathParts(NameAt(b, pl))) :
        IsSymlink(build[b].snap.fs,
                  Realpath(build[b].snap.fs, build[b].base)
                      \o SubSeq(PathParts(NameAt(b, pl)), 1, k))

\* C20: fill_and_check_digests rejects with an error, and never hashes, every
\* subject or local material whose path reaches its file through a symlink at
\* any component, the final component or any ancestor directory under
\* base_dir.
C20_SymlinkComponentsRefused ==
    \A b \in Builders :
        Ran(b) => \A pl \in Places(b) :
            (LocalAt(b, pl) /\ ThroughSymlink(b, pl)) => Refused(b, pl)


\* the file the path of the item stands for, as the run found the file system
FileAt(b, pl) == FollowPath(build[b].snap.fs, PathAt(b, pl))

\* the item at pl is invalid: remote without a digest, or local and forbidden,
\* a symlink, missing, or with a recorded digest that is not the one of its file
Invalid(b, pl) ==
    \/ RemoteAt(b, pl) /\ ~HasSha(ItemAt(b, pl))
    \/ /\ LocalAt(b, pl)
       /\ \/ Forbidden(b, pl)
          \/ IsSymlink(build[b].snap.fs, PathAt(b, pl))
          \/ ~PathExists(build[b].snap.fs, PathAt(b, pl))
          \/ /\ HasSha(ItemAt(b, pl))
             /\ KindOf(build[b].snap.fs, FileAt(b, pl)) = "file"
             /\ Lower(ItemAt(b, pl).digest.sha256.v)
                    # HexDigest(build[b].snap.data[build[b].snap.fs[FileAt(b, pl)].ino])

AllReported(b) ==
    /\ \A pl \in Places(b) : Invalid(b, pl) => ListedAny(b, NameAt(b, pl))
    /\ \A k \in 1..Len(build[b].schema_errors) :
          \E j \in 1..Len(build[b].errors) : build[b].errors[j] = build[b].schema_errors[k]

\* C21: fill_and_check_digests examines every subject and every material even
\* after earlier items have failed, returning at least one error for each
\* invalid item, and build reports schema errors together with digest errors
\* in one combined error list.
C21_EveryInvalidItemReported ==
    \A b \in Builders : Ran(b) => AllReported(b)

\* the same in the runs that no exception ended
C21_UnlessRaised ==
    \A b \in Builders : (Ran(b) /\ build[b].raised = "none") => AllReported(b)


(***************************************************************************)
(* verify of an envelope in which somebody changes the stored digest of    *)
(* the first subject, the signature left as it was.                        *)
(***************************************************************************)
\* the values one changed character can make of a digest: the same letters
\* with a letter in the other case, or the digits of another digest
Flipped(d) ==
    {[d EXCEPT !.upper = ~@], HexDigest(Fill("x")), HexDigest(Fill("y")), HexDigest(<<"w">>)}
        \ {d}

\* the statement with the stored digest of its first subject replaced
Redigested(s, d) == [s EXCEPT !.subject[1].digest.sha256.v = d]

\* the statement in the payload of an envelope
PayloadStatement(envelope) == ParseStatement(B64Decode(envelope.payload))

\* the envelope file is edited: one character of the stored digest is changed
TamperDigest(d) ==
    /\ clock < MaxClock
    /\ KindOf(fs, AttPath) = "file"
    /\ verdict.ran /\ verdict.error_code = "OK"
    /\ \E envelope \in {ReadEnvelope(data[fs[AttPath].ino])} :
          /\ d \in Flipped(PayloadStatement(envelope).subject[1].digest.sha256.v)
          /\ data' = [data EXCEPT ![fs[AttPath].ino] =
                         EnvelopeText(Repayloaded(envelope,
                                                  Redigested(PayloadStatement(envelope), d)))]
    /\ clock' = clock + 1
    /\ mtimes' = [mtimes EXCEPT ![fs[AttPath].ino] = clock']
    /\ UNCHANGED <<fs, guardVars, mcpVars, peer, pipe, wire, provVars, cache, store, hs>>

TamperDigests ==
    {HexDigest(Fill("x")), HexDigest(Fill("y")), HexDigest(<<"w">>),
     [HexDigest(Fill("x")) EXCEPT !.upper = TRUE],
     [HexDigest(Fill("y")) EXCEPT !.upper = TRUE]}

TamperStatements ==
    { SignStatement(<<SubjD(Str1("d"), HexDigest(Fill("x")))>>, None),
      SignStatement(<<SubjD(Str1("d"), [HexDigest(Fill("x")) EXCEPT !.upper = TRUE])>>,
                    Some(<<SubjD(Str1("e"), HexDigest(Fill("y")))>>)),
      SignStatement(<<SubjD(Str1("e"), HexDigest(Fill("y"))),
                      SubjD(Str1("d"), HexDigest(Fill("y")))>>, None) }

InitTamper ==
    /\ InitMcpIdle
    /\ InitWriters
    /\ InitProvIdle
    /\ scopes = <<PatAll>>
    /\ pid = [t \in Threads |-> 1]
    /\ fs = (Parent(AttPath) :> DirEntry) @@ (AttPath :> FileEntry(3)) @@ InitCacheFs
    /\ \E s \in TamperStatements : \E priv \in PrivKeys :
          data = (1 :> Fill("x")) @@ (2 :> Fill("y"))
                 @@ (3 :> EnvelopeText(DsseSign(s, priv)))
    /\ mtimes = (1 :> 0) @@ (2 :> 0) @@ (3 :> 0)
    /\ clock = 0
    /\ cache = ColdCache
    /\ store = AbsentStore
    /\ peer = ColdCache
    /\ pipe = IdlePipe
    /\ wire = IdleWire
    /\ hs = IdleHash

NextTamper ==
    \/ \E pub \in {PublicKey(k) : k \in PrivKeys} : Verify(pub, BaseDir)
    \/ \E d \in TamperDigests : TamperDigest(d)
    \/ \E c \in {Fill("x"), Fill("y")} : FileRewrite(DocPath, c)
    \/ NewProcess

SpecTamper == InitTamper /\ [][NextTamper]_vars

\* the envelope at the output path is one that verified with error_code OK
\* under pub in the files as they are, but for the stored digest of its first
\* subject, which was changed to another value
TamperedFromOk(pub, base) ==
    /\ EnvelopeAt(fs, data, AttPath) # NoEnvelope
    /\ \E d \in TamperDigests :
          /\ d # PayloadStatement(EnvelopeAt(fs, data, AttPath)).subject[1].digest.sha256.v
          /\ CmdVerify(Repayloaded(EnvelopeAt(fs, data, AttPath),
                                   Redigested(PayloadStatement(EnvelopeAt(fs, data, AttPath)),
                                              d)),
                       pub, Realpath(fs, base), cache, store, World).v.error_code = "OK"

\* C22 as stated: starting from an envelope that verifies with error_code OK,
\* changing one hexadecimal character of the subject's stored sha256 digest
\* (everything else unchanged) makes verify report error_code DIGEST_MISMATCH.
C22_FlipGivesDigestMismatch ==
    [][(verdict'.seq # verdict.seq /\ TamperedFromOk(verdict'.pub, verdict'.base))
       => verdict'.error_code = "DIGEST_MISMATCH"]_vars

\* C22 as amended: starting from an envelope that verifies with error_code OK,
\* changing one hexadecimal character of the subject's stored sha256 digest
\* (everything else unchanged, the signature included) makes verify report
\* signature_ok false and error_code SIG_INVALID, with exit status 1: the
\* signature no longer covers the payload, and the digests are not re-checked.
C22_FlipGivesSigInvalid ==
    [][(verdict'.seq # verdict.seq /\ TamperedFromOk(verdict'.pub, verdict'.base))
       => ( /\ verdict'.raised = "none"
            /\ ~verdict'.signature_ok /\ ~verdict'.digest_ok
            /\ verdict'.error_code = "SIG_INVALID"
            /\ verdict'.digest_errors = <<>>
            /\ verdict'.exit = 1
            /\ cache' = cache /\ store' = store )]_vars

\* an envelope verified with error_code OK, then one character of its stored
\* digest was changed, and it was verified again with the same key
C22_Witness ==
    /\ verdict.ran
    /\ verdict.error_code = "SIG_INVALID"
    /\ TamperedFromOk(verdict.pub, verdict.base)
    /\ clock > 0


(***************************************************************************)
(* Build of artifacts with several comments: with and without the key,     *)
(* parsing to a mapping, to something else, or not at all.                 *)
(***************************************************************************)
\* comments in one artifact
MaxBlocks == 3

DocHeader == Header(TypeV1, PolicyType, <<Subj(Str1("d"))>>, None)
AltHeader == Header(TypeV1, PolicyType, <<Subj(Str1("e"))>>, None)
LegacyHeader ==
    [EmptyHeader EXCEPT !.statement_type = "https://in-toto.io/Statement/v0.1",
                        !.predicate_type = PolicyType,
                        !.subject = <<SubjD(Str1("d"), HexDigest(Fill("x")))>>]

BlockKinds ==
    { Block(FALSE, "scalar", "other", EmptyHeader),
      Block(FALSE, "mapping", "legacy", AltHeader),
      Block(TRUE, "scalar", "other", EmptyHeader),
      Block(TRUE, "invalid", "other", EmptyHeader),
      Block(TRUE, "mapping", "wrapped", DocHeader),
      Block(TRUE, "mapping", "wrapped", AltHeader),
      Block(TRUE, "mapping", "legacy", LegacyHeader),
      Block(TRUE, "mapping", "other", EmptyHeader),
      Block(TRUE, "mapping", "null", EmptyHeader) }

BlockSeqs == UNION { [1..n -> BlockKinds] : n \in 0..MaxBlocks }

InitExtract ==
    /\ InitMcpIdle
    /\ InitWriters
    /\ InitProvIdle
    /\ scopes = <<PatAll>>
    /\ pid = [t \in Threads |-> 1]
    /\ fs = (ArtPath :> FileEntry(3)) @@ InitCacheFs
    /\ \E art \in BlockSeqs :
          data = (1 :> Fill("x")) @@ (2 :> Fill("y")) @@ (3 :> art)
    /\ mtimes = (1 :> 0) @@ (2 :> 0) @@ (3 :> 0)
    /\ clock = 0
    /\ cache = ColdCache
    /\ store = AbsentStore
    /\ peer = ColdCache
    /\ pipe = IdlePipe
    /\ wire = IdleWire
    /\ hs = IdleHash

NextExtract ==
    \/ \E priv \in PrivKeys : BuildStart(1, BaseDir, priv)
    \/ BuildStep(1)
    \/ Settled /\ NewProcess

SpecExtract == InitExtract /\ [][NextExtract]_vars

\* the comments of the artifact the run of builder b read
BlocksOf(b) == build[b].snap.data[build[b].snap.fs[ArtPath].ino]

\* the run of builder b is past extract_header
PastExtract(b) == build[b].pc \notin {"idle", "check"}

\* the least of a set of places
FirstOf(S) == CHOOSE i \in S : \A j \in S : i <= j

\* the comments whose body contains the key
Matching(bl) == { i \in 1..Len(bl) : bl[i].prov }

\* the comment parses into a provenance mapping
YieldsMapping(blk) == blk.raw = "mapping" /\ blk.layout \in {"wrapped", "legacy", "null"}
MappingOf(blk) == IF blk.layout = "null" THEN EmptyHeader ELSE blk.header

ExtractFailed(b) == build[b].raised \in {"ValueError", "YAMLError"}

Stopping(bl) == { i \in 1..Len(bl) : bl[i].prov /\ bl[i].raw \in {"mapping", "invalid"} }

NextStore ==
    \/ \E p \in {DocPath, AltPath} : HashCall(p)
    \/ HashAdvance
    \/ HashCrash
    \/ NewProcess
    \/ PeerLoad
    \/ \E p \in {DocPath, AltPath} : PeerHash(p)
    \/ PeerExit
    \/ \E c \in {Fill("x"), Fill("y")} : FileRewrite(DocPath, c)

SpecStore == InitCache /\ [][NextStore]_vars

\* the step that leaves the lookup of lines 52-64
LookupStep == hs.pc = "lookup" /\ hs'.pc \in {"open", "done"}
\* the call ends at this step, by a return or by an exception
Ended == hs.pc \notin {"idle", "done"} /\ hs'.pc = "done"
Returned == Ended /\ hs'.out = "digest"
\* what the lookup finds: the resolved path, its identity, and the entry the
\* process has for it once its cache is loaded
SeenKey == Realpath(fs, hs.path)
SeenThere == EntryPath(fs, SeenKey) # NoDir /\ Exists(fs, EntryPath(fs, SeenKey))
SeenMeta == MetaOfEntry(World, EntryPath(fs, SeenKey))
SeenEntry == EntryOf(LoadCache(cache, store), SeenKey)
SameIdentity == SeenThere /\ SeenEntry.has /\ SeenEntry.meta = SeenMeta
\* the entry made of the identity and the digest of the call that ends
NewEntry == [meta |-> hs'.pre, sha |-> hs'.digest]
ReplacedAndPersisted ==
    /\ Returned
    /\ hs'.key \in DOMAIN cache'.entries
    /\ cache'.entries[hs'.key] = NewEntry
    /\ store'.state = "valid"
    /\ hs'.key \in DOMAIN store'.entries
    /\ store'.entries[hs'.key] = NewEntry

\* the stored digest is returned, with no open, exactly when the identities agree
HitIffSameIdentity ==
    /\ LookupStep =>
          /\ Returned <=> SameIdentity
          /\ Returned => /\ hs'.digest = SeenEntry.sha
                         /\ ~hs'.fresh
                         /\ hs'.start = <<>>
                         /\ hs'.fd = 0
                         /\ data' = data
    /\ (Returned /\ ~LookupStep) =>
          /\ hs'.start # <<>>
          /\ hs'.fresh
          /\ hs'.digest = HexDigest(hs'.acc)
          /\ hs'.entry.has => hs'.entry.meta # hs'.pre

\* C24 as the specification states it: sha256_cached returns a stored digest
\* without opening the file if and only if the cache has an entry for the
\* resolved path whose identity equals the one of the pre-read stat; when the
\* identity differs the old digest is not returned, and the entry is replaced
\* by the new identity and digest and persisted.
C24_StaleEntryAlwaysReplaced ==
    [][/\ HitIffSameIdentity
       /\ (Ended /\ ~LookupStep /\ hs'.entry.has) => ReplacedAndPersisted]_vars

\* C24, amended: sha256_cached returns a stored digest without opening the file
\* if and only if the cache has an entry for the resolved path whose identity
\* equals the one of the pre-read stat; when the identity differs the stored
\* digest is not returned, and a call that returns a digest has replaced the
\* entry by the new identity and digest and persisted it, while a call that
\* raises leaves the cache and the store as they were.
C24_HitIffSameIdentity ==
    [][/\ HitIffSameIdentity
       /\ (Returned /\ ~LookupStep) => ReplacedAndPersisted
       /\ (Ended /\ ~Returned) => (cache'.entries = LoadCache(cache, store).entries
                                   /\ store' = store)]_vars

\* a call has found an entry with another identity, has hashed the file again
\* and has put the new digest in the place of the old one
C24_Witness ==
    /\ hs.pc = "done"
    /\ hs.out = "digest"
    /\ hs.fresh
    /\ hs.entry.has
    /\ hs.entry.sha # hs.digest
    /\ store.state = "valid"
    /\ hs.key \in DOMAIN store.entries
    /\ store.entries[hs.key] = [meta |-> hs.pre, sha |-> hs.digest]

\* C25: in every reachable state, also after a crash at any step of persisting,
\* the store file is absent or holds the whole serialization of one in-memory
\* cache: it is never partly written, and whenever it changes it becomes the
\* cache of the process that persists.
C25_StoreAbsentOrWhole ==
    /\ [](store.state \in {"absent", "valid"})
    /\ [][(store'.state # store.state \/ store'.entries # store.entries)
            => /\ store'.state = "valid"
               /\ \/ (hs.pc = "replace" /\ store'.entries = cache.entries)
                  \/ (peer.loaded /\ store'.entries = peer'.entries)]_vars

\* a process has died between the creation of its temporary file and the
\* rename, after an earlier persist
C25_Witness ==
    /\ hs = IdleHash
    /\ ~cache.loaded
    /\ store.tmp.state = "partial"
    /\ store.state = "valid"

\* the digest of a call is settled: by the lookup, or by the identity checks
\* that follow the read
SettledByLookup == LookupStep /\ Returned
SettledByRead == hs.pc = "eof" /\ hs'.pc = "persist"

\* C26: whatever the interleaving of two processes that load, update and
\* persist the store without a lock, a digest that is returned is the SHA-256
\* of the content the file has under the identity seen at lookup, and a key
\* that is missing from the cache leads to a new hash of the file.
C26_ReturnedDigestIsOfSeenIdentity ==
    [][/\ SettledByLookup =>
            /\ KindOf(fs, EntryPath(fs, SeenKey)) = "file"
            /\ hs'.pre = MetaOfIno(World, fs[EntryPath(fs, SeenKey)].ino)
            /\ hs'.digest = HexDigest(data[fs[EntryPath(fs, SeenKey)].ino])
       /\ SettledByRead =>
            /\ hs'.pre = MetaOfIno(World, hs.fd)
            /\ hs'.digest = HexDigest(data[hs.fd])
       /\ (Returned /\ ~LookupStep) => (hs.pc = "replace" /\ hs'.digest = hs.digest)
       /\ (LookupStep /\ SeenThere /\ ~SeenEntry.has) => hs'.pc = "open"]_vars

\* the entry a call has just persisted is gone from the store: the second
\* process has persisted a cache it had loaded before
C26_Witness ==
    /\ hs.pc = "done"
    /\ hs.out = "digest"
    /\ hs.fresh
    /\ store.state = "valid"
    /\ hs.key \notin DOMAIN store.entries


(***************************************************************************)
(* One subject of fill_and_check_digests while another actor takes the     *)
(* named file away and puts a symlink in its place.                        *)
(***************************************************************************)
MovedPath == <<Str1("b"), Str1("f")>>

NextSwap ==
    \/ ItemBegin("subject", BaseDir, Subj(Str1("d")))
    \/ HashAdvance
    \/ ItemEnd
    \/ item.pc # "hash" /\ NewProcess
    \/ FileRemove(DocPath)
    \/ FileMove(DocPath, MovedPath)
    \/ \E t \in {AltPath, MovedPath} : EnvSymlink(<<DocPath, t>>)
    \/ FileReplace(DocPath, Fill("y"))

SpecSwap == InitCache /\ [][NextSwap]_vars

\* the step of sha256_cached that gets the handle the file is hashed through
Opening == hs.pc \in {"open", "reopen"} /\ hs'.pc = "read"

\* the digest of the file a symlink points to has been accepted for the name
\* that was checked: the handle came from an open that follows symlinks, and
\* the name is a symlink
TargetDigestAccepted ==
    /\ item.pc = "done"
    /\ item.errors = <<>>
    /\ item.raised = "none"
    /\ hs.pc = "done"
    /\ hs.out = "digest"
    /\ hs.fresh
    /\ ~hs.nofollow
    /\ KindOf(fs, EntryPath(fs, hs.key)) = "link"

\* C27: whatever another actor does between the symlink check and the open,
\* every open used for hashing has symlink-following disabled, so that the
\* digest of the target of a symlink is never accepted for the checked name.
C27_EveryOpenNoFollow ==
    /\ [][Opening => (hs'.nofollow /\ KindOf(fs, EntryPath(fs, hs.key)) # "link")]_vars
    /\ [](~TargetDigestAccepted)

\* the conclusion of C27 alone
C27_TargetDigestNeverAccepted == ~TargetDigestAccepted

\* what does hold: a name that is a symlink when line 71 opens it is refused
C27_FirstOpenRefusesSymlink ==
    [][(hs.pc = "open" /\ hs'.pc # "open" /\ hs' # IdleHash
        /\ KindOf(fs, EntryPath(fs, hs.key)) = "link")
       => (hs'.pc = "done" /\ hs'.out = "OSError")]_vars


(***************************************************************************)
(* Pipeline: policy_synth_pipeline.py, run_pipeline.                       *)
(***************************************************************************)
\* a test of the exit status that takes only positive values for failures
SynthFailedPositive(code) == code > 0
\* line 61: result.returncode != 0
SynthFailed(code) == code # 0

\* Path.exists() of the artifact: symlinks are followed
ArtifactThere ==
    LET e == FollowPath(fs, ArtPath) IN e # NoDir /\ Exists(fs, e)

\* lines 50-55: the paths are resolved; an empty or missing command is skipped
RunPipeline(synth, priv) ==
    /\ pipe.pc = "idle"
    /\ pipe' = [IdlePipe EXCEPT
                  !.pc = IF synth.has /\ synth.argv # <<>> THEN "synth" ELSE "exists",
                  !.synth = synth, !.priv = priv]
    /\ UNCHANGED <<fsVars, guardVars, mcpVars, cacheVars, peer, wire, provVars>>

\* lines 56-64: subprocess.run of the synthesis command, which may write the
\* artifact or remove it, and the test of its exit status
PipeSynth ==
    /\ pipe.pc = "synth"
    /\ clock < MaxClock
    /\ FreeInodes(fs, Fds) # {}
    /\ LET i == NewIno(fs, Fds)
       IN  IF pipe.synth.does = "write"
           THEN /\ fs' = (ArtPath :> FileEntry(i)) @@ fs
                /\ data' = Collect((i :> <<Block(TRUE, "mapping", "wrapped", DocHeader)>>)
                                       @@ data, fs', Fds)
                /\ clock' = clock + 1
                /\ mtimes' = (i :> clock') @@ mtimes
           ELSE IF pipe.synth.does = "remove"
           THEN /\ fs' = Without(fs, {ArtPath})
                /\ data' = Collect(data, fs', Fds)
                /\ UNCHANGED <<clock, mtimes>>
           ELSE UNCHANGED <<fs, data, clock, mtimes>>
    /\ pipe' = IF SynthFailed(pipe.synth.code)
               THEN [pipe EXCEPT !.pc = "done", !.ran = TRUE, !.code = pipe.synth.code,
                                 !.raised = "PipelineError"]
               ELSE [pipe EXCEPT !.pc = "exists", !.ran = TRUE, !.code = pipe.synth.code]
    /\ UNCHANGED <<guardVars, mcpVars, cache, store, hs, peer, wire, provVars>>

\* lines 66-67: if not artifact_path.exists(): raise PipelineError
PipeExists ==
    /\ pipe.pc = "exists"
    /\ pipe' = IF ArtifactThere
               THEN [pipe EXCEPT !.pc = "build", !.checked = TRUE]
               ELSE [pipe EXCEPT !.pc = "done", !.checked = TRUE,
                                 !.raised = "PipelineError"]
    /\ UNCHANGED <<fsVars, guardVars, mcpVars, cacheVars, peer, wire, provVars>>

\* lines 69-77: provtools.cmd_build(namespace)
PipeBuild ==
    /\ pipe.pc = "build"
    /\ build[1].pc = "idle"
    /\ BuildStart(1, BaseDir, pipe.priv)

\* lines 78-89: a status other than 0 raises PipelineError, 0 returns the paths
PipeReturn ==
    /\ pipe.pc = "build"
    /\ build[1].pc = "done"
    /\ pipe' = [pipe EXCEPT !.pc = "done", !.status = build[1].exit,
                            !.raised = IF build[1].raised # "none" THEN build[1].raised
                                       ELSE IF build[1].exit # 0 THEN "PipelineError"
                                       ELSE "none"]
    /\ UNCHANGED <<fsVars, guardVars, mcpVars, cacheVars, peer, wire, provVars>>

\* synth_command: None, the empty list, or a program that does one of three
\* things to the artifact and exits with 0, with 1, or killed by signal 9
SynthCommands ==
    { NoCommand, [has |-> TRUE, argv |-> <<>>, does |-> "nothing", code |-> 0] }
    \cup { [has |-> TRUE, argv |-> <<"s">>, does |-> d, code |-> c] :
             d \in {"nothing", "write", "remove"}, c \in {0, 1, -9} }

\* a header whose recorded digest is not the one of the file
StaleHeader ==
    Header(TypeV1, PolicyType, <<SubjD(Str1("d"), HexDigest(Fill("y")))>>, None)

\* the artifact is missing, has a header that validates, one whose digest does
\* not match, or one that is not a provenance header
InitPipe ==
    /\ InitMcpIdle
    /\ InitWriters
    /\ InitProvIdle
    /\ scopes = <<PatAll>>
    /\ pid = [t \in Threads |-> 1]
    /\ \/ /\ fs = InitCacheFs
          /\ data = (1 :> Fill("x")) @@ (2 :> Fill("y"))
          /\ mtimes = (1 :> 0) @@ (2 :> 0)
       \/ /\ fs = (ArtPath :> FileEntry(3)) @@ InitCacheFs
          /\ \E blk \in {Block(TRUE, "mapping", "wrapped", DocHeader),
                         Block(TRUE, "mapping", "wrapped", StaleHeader),
                         Block(TRUE, "mapping", "other", EmptyHeader)} :
                data = (1 :> Fill("x")) @@ (2 :> Fill("y")) @@ (3 :> <<blk>>)
          /\ mtimes = (1 :> 0) @@ (2 :> 0) @@ (3 :> 0)
    /\ clock = 0
    /\ cache = ColdCache
    /\ store = AbsentStore
    /\ peer = ColdCache
    /\ pipe = IdlePipe
    /\ wire = IdleWire
    /\ hs = IdleHash

NextPipe ==
    \/ \E synth \in SynthCommands : \E priv \in PrivKeys : RunPipeline(synth, priv)
    \/ PipeSynth
    \/ PipeExists
    \/ PipeBuild
    \/ BuildStep(1)
    \/ PipeReturn

SpecPipe == InitPipe /\ [][NextPipe]_vars

\* cmd_build has not been entered: nothing is validated, hashed or signed, and
\* neither the attestation nor its directory or temporary file exists
BuildNotInvoked ==
    /\ build[1] = IdleBuild
    /\ cache = ColdCache
    /\ store = AbsentStore
    /\ \A p \in DOMAIN fs : ~IsPrefix(Parent(AttPath), p)

\* C28: when the synthesis command has exited with a status other than 0, or
\* the artifact does not exist once it has run, run_pipeline ends with
\* PipelineError and cmd_build has not been invoked: nothing is validated,
\* nothing is signed, nothing is written to the attestation path.
C28_FailedSynthStopsBeforeBuild ==
    ((pipe.ran /\ pipe.code # 0) \/ (pipe.checked /\ ~ArtifactThere))
        => /\ pipe.pc = "done"
           /\ pipe.raised = "PipelineError"
           /\ BuildNotInvoked

\* the command has written an artifact whose header validates and was then
\* killed by a signal
C28_Witness ==
    /\ pipe.pc = "done"
    /\ pipe.ran
    /\ pipe.code < 0
    /\ pipe.synth.does = "write"
    /\ ArtifactThere
    /\ pipe.raised = "PipelineError"


(***************************************************************************)
(* The files the pipeline writes, and the capability guard.                *)
(***************************************************************************)
\* _CACHE_PATH = Path(".prov_cache.json"), in the working directory
CachePath ==
    Append(BaseDir, <<".", "p", "r", "o", "v", "_", "c", "a", "c", "h", "e",
                      ".", "j", "s", "o", "n">>)

\* the files a step of cmd_build creates or writes, the store included
WrittenByBuild ==
    IF pipe.pc # "build" THEN {}
    ELSE { p \in DOMAIN fs' :
             /\ KindOf(fs', p) = "file"
             /\ \/ p \notin DOMAIN fs
                \/ fs'[p] # fs[p]
                \/ data'[fs'[p].ino] # data[fs[p].ino] }
         \cup (IF store' # store THEN {CachePath} ELSE {})

\* FileScope.assert_write_allowed has returned p as the target of a write
CheckedByGuard(p) == \E t \in Threads : target[t] = p
\* what assert_write_allowed answers for p under the principal's scopes
GuardAccepts(p) == AssertWriteAllowed(fs, scopes, [abs |-> TRUE, parts |-> p]).ok

\* C29: every file the core opens for writing during a pipeline run (the DSSE
\* envelope at the attestation path, the hash-cache store) is written only
\* after the capability guard's write check has accepted that path.
C29_WritesOnlyAfterGuardCheck ==
    [][\A p \in WrittenByBuild : CheckedByGuard(p)]_vars

\* C29, weaker: every file the core writes is one the guard would accept
C29_WritesInsideScopes ==
    [][\A p \in WrittenByBuild : GuardAccepts(p)]_vars

\* C29 for the envelope and its temporary file alone
C29_EnvelopeInsideScopes ==
    [][\A p \in WrittenByBuild \ {CachePath} : GuardAccepts(p)]_vars


(***************************************************************************)
(* The pre-authentication encoding as bytes: pae, and Ed25519 over it.     *)
(***************************************************************************)
\* the longest payload type (in characters) and payload (in bytes) tried
PaeTypeLen == 2
PaePayloadLen == 2

\* characters of a payload type: a digit, a space, and U+00E9, which UTF-8
\* encodes in two bytes; bytes of a payload: the digit "1" and the space
TypeChars == {"1", " ", "eacute"}
PayloadBytes == {49, 32}
PaeTypes == UNION { [1..n -> TypeChars] : n \in 0..PaeTypeLen }
PaePayloads == UNION { [1..n -> PayloadBytes] : n \in 0..PaePayloadLen }

\* str.encode() of one character: UTF-8
Utf8(ch) == IF ch = "1" THEN <<49>> ELSE IF ch = " " THEN <<32>> ELSE <<195, 169>>
RECURSIVE Encode(_)
Encode(t) == IF t = <<>> THEN <<>> ELSE Utf8(Head(t)) \o Encode(Tail(t))

\* str(n).encode(): the decimal digits of n in ASCII
RECURSIVE Digits(_)
Digits(n) == IF n < 10 THEN <<48 + n>> ELSE Digits(n \div 10) \o <<48 + (n % 10)>>

\* b"DSSEv1"
Magic == <<68, 83, 83, 69, 118, 49>>

\* the fields joined by spaces with the two lengths left out
PaeBytesNoLengths(t, p) == Magic \o <<32>> \o Encode(t) \o <<32>> \o p

\* pae (lines 214-223): b" ".join of the magic, the number of characters of
\* the type, the encoded type, the number of bytes of the payload, the payload
PaeBytes(t, p) ==
    Magic \o <<32>> \o Digits(Len(t)) \o <<32>> \o Encode(t)
          \o <<32>> \o Digits(Len(p)) \o <<32>> \o p

\* line 293: private_key.sign(pae(payload_type, payload))
PaeSign(t, p, priv) ==
    /\ wire.pc = "idle"
    /\ wire' = [IdleWire EXCEPT !.pc = "signed", !.type = t, !.payload = p,
                                !.enc = PaeBytes(t, p), !.priv = priv,
                                !.sig = Sign(priv, PaeBytes(t, p))]
    /\ UNCHANGED <<fsVars, guardVars, mcpVars, cacheVars, peer, pipe, provVars>>

\* line 314: public_key.verify(signature, pae(payload_type, payload)) of the
\* signature made, for a type and a payload of the verifier's
PaeVerify(t, p, pub) ==
    /\ wire.pc \in {"signed", "verified"}
    /\ wire' = [wire EXCEPT !.pc = "verified",
                            !.same = (t = wire.type /\ p = wire.payload),
                            !.keyOk = (pub = PublicKey(wire.priv)),
                            !.ok = VerifySignature(pub, wire.sig, PaeBytes(t, p))]
    /\ UNCHANGED <<fsVars, guardVars, mcpVars, cacheVars, peer, pipe, provVars>>

\* the next envelope
PaeForget ==
    /\ wire.pc = "verified"
    /\ wire' = IdleWire
    /\ UNCHANGED <<fsVars, guardVars, mcpVars, cacheVars, peer, pipe, provVars>>

NextWire ==
    \/ \E t \in PaeTypes : \E p \in PaePayloads : \E priv \in PrivKeys : PaeSign(t, p, priv)
    \/ \E t \in PaeTypes : \E p \in PaePayloads :
         \E pub \in {PublicKey(k) : k \in PrivKeys} : PaeVerify(t, p, pub)
    \/ PaeForget

SpecWire == InitCache /\ [][NextWire]_vars

\* C30: pae is injective over (payloadType, payload): two pairs that differ
\* have different encodings, so a signature over one typed payload does not
\* verify for another type or another payload.
C30_PaeInjective ==
    /\ wire.pc = "signed" =>
          \A t \in PaeTypes : \A p \in PaePayloads :
              (t # wire.type \/ p # wire.payload) => PaeBytes(t, p) # wire.enc
    /\ (wire.pc = "verified" /\ ~wire.same) => ~wire.ok

\* the signature over the type " " with an empty payload has been tried, with
\* the right key, for another pair, and has been refused
C30_Witness ==
    /\ wire.pc = "verified"
    /\ wire.type = <<" ">>
    /\ wire.payload = <<>>
    /\ ~wire.same
    /\ wire.keyOk
    /\ ~wire.ok


(***************************************************************************)
(* verify: what is checked, and what the three flags report.               *)
(***************************************************************************)
\* a run of cmd_verify ends at this step
VerifyStep == verdict'.seq # verdict.seq
\* the envelope the run reads, and the statement in its payload
EnvelopeRead == EnvelopeAt(fs, data, FollowPath(fs, AttPath))
StatementRead == PayloadStatement(EnvelopeRead)

\* C31: when the signature check fails in verify, the payload is not decoded,
\* validated or digest-checked: no error of either kind is gathered, no file
\* is hashed (the cache and the store stay as they were), and schema_ok and
\* digest_ok are both reported false, with the code SIG_INVALID.
C31_NothingCheckedAfterBadSignature ==
    [][(VerifyStep /\ verdict'.ran /\ verdict'.raised = "none"
        /\ DsseVerify(EnvelopeRead, verdict'.pub) # "True")
       => /\ ~verdict'.signature_ok
          /\ ~verdict'.schema_ok
          /\ ~verdict'.digest_ok
          /\ verdict'.schema_errors = <<>>
          /\ verdict'.digest_errors = <<>>
          /\ verdict'.error_code = "SIG_INVALID"
          /\ verdict'.exit = 1
          /\ cache' = cache
          /\ store' = store]_vars

\* an envelope of the expected type whose statement names a local file has
\* been verified with the wrong key by a process that has hashed nothing
C31_Witness ==
    /\ verdict.ran
    /\ verdict.raised = "none"
    /\ ~verdict.signature_ok
    /\ verdict.error_code = "SIG_INVALID"
    /\ EnvelopeRead.payloadType = PAYLOAD_TYPE
    /\ StatementRead.subject # <<>>
    /\ ~cache.loaded
    /\ store = AbsentStore

\* the digest re-check of line 403 applied to the statement the run has read
DigestRecheck ==
    FillAndCheckDigests(Realpath(fs, verdict'.base), StatementRead, cache, store, World)

\* C32: verify reports digest_ok true only if the digest re-check was run on
\* the signed statement (what it hashes is in the cache afterwards) and
\* returned no errors; signature_ok and schema_ok likewise reflect the
\* signature check and the schema validation.
C32_FlagsReflectTheirChecks ==
    [][(VerifyStep /\ verdict'.ran /\ verdict'.raised = "none")
       => /\ verdict'.signature_ok <=> DsseVerify(EnvelopeRead, verdict'.pub) = "True"
          /\ verdict'.schema_ok <=> /\ verdict'.signature_ok
                                    /\ ValidateStatement(StatementRead) = <<>>
          /\ verdict'.digest_ok => /\ verdict'.signature_ok
                                   /\ DigestRecheck.raised = "none"
                                   /\ DigestRecheck.errors = <<>>
                                   /\ cache' = DigestRecheck.c
                                   /\ store' = DigestRecheck.st]_vars

\* what does hold: with a valid signature and a valid schema, digest_ok is
\* true exactly when the re-check, which has then run, returned no errors
C32_FlagsOfValidStatements ==
    [][(VerifyStep /\ verdict'.ran /\ verdict'.raised = "none" /\ verdict'.schema_ok)
       => /\ cache' = DigestRecheck.c
          /\ store' = DigestRecheck.st
          /\ verdict'.digest_ok <=> DigestRecheck.errors = <<>>]_vars

RaceReported(v) == \E i \in 1..Len(v.digest_errors) : RejectedByRace(v.digest_errors[i])
PathPolicyRejection(v) ==
    \E i \in 1..Len(v.digest_errors) : RejectedByPathPolicy(v.digest_errors[i])

\* C33: when no hash race is reported, verify's error_code is PATH_FORBIDDEN
\* if and only if the digest re-check rejected some subject or material name
\* under path policy: absolute or home-relative, a symlink, or escaping
\* base_dir.
C33_PathForbiddenIffPolicyRejection ==
    (verdict.ran /\ verdict.raised = "none" /\ ~RaceReported(verdict))
    => (verdict.error_code = "PATH_FORBIDDEN" <=> PathPolicyRejection(verdict))

\* what does hold: an absolute or home-relative name, whose message carries
\* both words, gives PATH_FORBIDDEN when no race is reported
C33_AbsoluteNameIsForbidden ==
    (verdict.ran /\ verdict.raised = "none" /\ ~RaceReported(verdict)
        /\ \E i \in 1..Len(verdict.digest_errors) :
              verdict.digest_errors[i].text = "absolute or home path not allowed")
    => verdict.error_code = "PATH_FORBIDDEN"


(***************************************************************************)
(* Guarded writes that the scope check rejects (specification Spec).       *)
(***************************************************************************)
\* C34: a guarded write that the scope check rejects has no effect on the
\* file system: no parent directory and no temporary file is created, the
\* target and every other file stay as they were, and the writer holds no
\* open file and does nothing further for that call.
C34_RejectedWriteLeavesFs ==
    [][\A t \in Threads :
        (CallStep(t) /\ pc'[t] = "idle") =>
            /\ result'[t] = "ScopeError"
            /\ fs' = fs
            /\ data' = data
            /\ fd'[t] = 0
      ]_vars

\* a request below the missing directory b/s was rejected, and b/s is missing
C34_Witness ==
    /\ result[1] = "ScopeError"
    /\ pc[1] = "idle"
    /\ req[1] = Rel(<<Str1("s"), NameA>>)
    /\ <<Str1("b"), Str1("s")>> \notin DOMAIN fs
    /\ TmpPath(<<Str1("b"), Str1("s"), NameA>>, pid[1]) \notin DOMAIN fs


(***************************************************************************)
(* Builds that fail, one of them for want of the private key.              *)
(***************************************************************************)
MissingKey == "nokey"

NextNoKey ==
    \/ \E priv \in PrivKeys \cup {MissingKey} : BuildStart(1, BaseDir, priv)
    \/ BuildStep(1)
    \/ \E c \in {Fill("x"), Fill("y")} : Settled /\ FileRewrite(DocPath, c)
    \/ Settled /\ NewProcess

SpecNoKey == InitProv /\ [][NextNoKey]_vars

BuildFailed(b) == build[b].pc = "done" /\ build[b].exit = 1
SigningFailed(b) ==
    BuildFailed(b) /\ build[b].errors = <<>> /\ LoadPriv(build[b].priv) # "ok"

\* C35: when build fails (missing header, schema error, digest error or
\* signing failure) the attestation output path is as it was before the run:
\* no file is created there, no temporary file is left beside it, and an
\* envelope that was there is not modified.
C35_FailedBuildLeavesOutput ==
    \A b \in Builders :
        BuildFailed(b) =>
            /\ fs = build[b].snap.fs
            /\ AttTmp(b) \notin DOMAIN fs
            /\ KindOf(fs, AttPath) = "file" =>
                  data[fs[AttPath].ino] = build[b].snap.data[fs[AttPath].ino]

\* a build has failed on a digest error with an earlier envelope in place
C35_Witness ==
    /\ BuildFailed(1)
    /\ build[1].digest_errors # <<>>
    /\ KindOf(fs, AttPath) = "file"
    /\ data[fs[AttPath].ino] # <<>>

\* a build that fails because the key cannot be loaded has made no envelope
C35_SigningFailureWritesNothing ==
    \A b \in Builders : SigningFailed(b) => NothingWritten(b)


(***************************************************************************)
(* A read that raced with a writer (specification SpecFill).               *)
(***************************************************************************)
\* the step of sha256_cached that raises HashRaceError
RaceStep == hs.pc = "eof" /\ hs'.pc = "done" /\ hs'.out = "HashRaceError"
\* the last call of sha256_cached has raised HashRaceError
Raced == hs.pc = "done" /\ hs.out = "HashRaceError"
\* what a call of sha256_cached on the same path would do now
LaterCall == Sha256Cached(hs.path, cache, store, World).h

\* C36: when sha256_cached raises HashRaceError, the in-memory cache and the
\* persisted store are not modified and no digest from the raced read is
\* returned or kept; fill_and_check_digests reports the item as "file changed
\* during hashing" and fills nothing in; and a later call for the same file
\* that returns a digest has read the file again from its start.
C36_RaceLeavesNothingBehind ==
    [][ /\ RaceStep =>
              /\ cache' = cache
              /\ store' = store
              /\ EntryOf(cache', hs.key) = hs.entry
              /\ hs'.digest = IdleHash.digest
              /\ ~hs'.fresh
        /\ (item.pc = "hash" /\ Raced /\ item'.pc = "done") =>
              /\ item'.errors = <<Err("file changed during hashing", item.item.name.v)>>
              /\ item'.item = item.item
              /\ item'.raised = "none"
              /\ cache' = cache
              /\ store' = store
        /\ (Raced /\ LaterCall.out = "digest" /\ LaterCall.key = hs.key) =>
              /\ LaterCall.fresh
              /\ LaterCall.start = LaterCall.end
              /\ LaterCall.digest = HexDigest(LaterCall.acc)
      ]_vars

\* a subject without a recorded digest was reported as changed during
\* hashing while the cache held an older entry for its file
C36_Witness ==
    /\ Raced
    /\ item.pc = "done"
    /\ item.item.name = Some(Str1("d"))
    /\ ~item.item.digest.sha256.has
    /\ item.errors = <<Err("file changed during hashing", Str1("d"))>>
    /\ hs.entry.has
    /\ EntryOf(cache, hs.key) = hs.entry
    /\ hs.acc # <<>>


(***************************************************************************)
(* The artifact is edited after its envelope was built.                    *)
(***************************************************************************)
\* the artifact starts with a header that builds
InitEdit ==
    /\ InitProv
    /\ data[3] \in {<<Block(TRUE, "mapping", "wrapped", h)>> : h \in GoodHeaders}

\* what the artifact is rewritten to: the same header followed by more text,
\* text without a header, nothing
ArtifactEdits ==
    {Append(data[fs[ArtPath].ino], Block(TRUE, "mapping", "other", EmptyHeader)),
     <<Block(TRUE, "mapping", "other", EmptyHeader)>>, <<>>}

NextEdit ==
    \/ BuildStart(1, BaseDir, "key1")
    \/ BuildStep(1)
    \/ \E pub \in {PublicKey(k) : k \in PrivKeys} : Settled /\ Verify(pub, BaseDir)
    \/ \E art \in ArtifactEdits :
          Settled /\ Len(data[fs[ArtPath].ino]) < 2 /\ FileRewrite(ArtPath, art)
    \/ \E c \in {Fill("x"), Fill("y")} : Settled /\ FileRewrite(DocPath, c)
    \/ Settled /\ NewProcess

SpecEdit == InitEdit /\ [][NextEdit]_vars

\* the envelope at the output path is the one the last build made
BuiltEnvelopeInPlace ==
    /\ build[1].pc = "done"
    /\ build[1].exit = 0
    /\ EnvelopeRead = build[1].envelope

ContentAt(f, d, p) == IF KindOf(f, p) = "file" THEN d[f[p].ino] ELSE <<>>
\* the bytes at p are not those the last build started with
ChangedSinceBuild(p) ==
    ContentAt(fs, data, p) # ContentAt(build[1].snap.fs, build[1].snap.data, p)

\* C37: the envelope of a successful build of artifact A binds A's content:
\* when A's bytes have changed after the build, verifying the envelope does
\* not return error_code OK.
C37_ArtifactBytesBound ==
    [][(VerifyStep /\ BuiltEnvelopeInPlace /\ ChangedSinceBuild(ArtPath))
       => verdict'.error_code # "OK"]_vars

\* what does hold: the envelope binds the files its statement names; when the
\* bytes of the local subject d have changed, verify does not return OK
C37_SubjectBytesBound ==
    [][(VerifyStep /\ BuiltEnvelopeInPlace /\ ChangedSinceBuild(DocPath)
           /\ \E i \in 1..Len(StatementRead.subject) :
                 StatementRead.subject[i].name = Some(Str1("d")))
       => verdict'.error_code # "OK"]_vars


(***************************************************************************)
(* The digests in the envelopes that build writes.                         *)
(***************************************************************************)
\* builder b has written its envelope
Written(b) == build[b].pc = "done" /\ build[b].exit = 0
\* the statement inside the envelope, as a reader of the payload gets it
SignedStatement(b) == PayloadStatement(build[b].envelope)
SignedItems(b, kind) ==
    IF kind = "subject" THEN SignedStatement(b).subject
    ELSE Materials(SignedStatement(b))

\* the item is one whose file build hashes
LocalItem(kind, it) == kind = "subject" \/ ~IsRemote(it.name.v)
\* the digests _sha256 returned in the run for the item of this kind and name
ReturnedFor(b, kind, name) ==
    { build[b].hashed[k].sha256 : k \in
        { j \in 1..Len(build[b].hashed) :
            build[b].hashed[j].kind = kind /\ build[b].hashed[j].name = name } }

\* C38: in every envelope written by build, each subject and each material of
\* the signed statement carries a sha256 digest, and for each local one that
\* digest equals the digest the hash cache returned for its file in the run.
C38_SignedDigestsAreReturnedOnes ==
    \A b \in Builders :
        Written(b) =>
            \A kind \in {"subject", "material"} :
                \A i \in 1..Len(SignedItems(b, kind)) :
                    LET it == SignedItems(b, kind)[i]
                    IN  /\ HasSha(it)
                        /\ LocalItem(kind, it) =>
                              it.digest.sha256.v \in ReturnedFor(b, kind, it.name.v)

\* the header recorded a sha256 digest for an item of this kind and name
RecordedSha(b, kind, name) ==
    \E i \in 1..Len(IF kind = "subject" THEN Declared(b).subject
                    ELSE Materials(Declared(b))) :
        LET it == (IF kind = "subject" THEN Declared(b).subject
                   ELSE Materials(Declared(b)))[i]
        IN  /\ (IF Truthy(it.name) THEN it.name.v ELSE it.uri.v) = name
            /\ HasSha(it)

\* C38 as amended: each subject and each material of the signed statement
\* carries a sha256 digest; for each local one it equals the digest the hash
\* cache returned for its file in the run when the two are compared without
\* regard to the case of the hexadecimal letters, and it is exactly the
\* returned digest when the header recorded none.
C38_SignedDigestsMatchReturnedOnes ==
    \A b \in Builders :
        Written(b) =>
            \A kind \in {"subject", "material"} :
                \A i \in 1..Len(SignedItems(b, kind)) :
                    LET it == SignedItems(b, kind)[i]
                    IN  /\ HasSha(it)
                        /\ LocalItem(kind, it) =>
                              /\ Lower(it.digest.sha256.v) \in ReturnedFor(b, kind, it.name.v)
                              /\ ~RecordedSha(b, kind, it.name.v) =>
                                    it.digest.sha256.v \in ReturnedFor(b, kind, it.name.v)

\* an envelope was written whose subject keeps the upper-case digest of the
\* header and whose material got the digest computed in the run
C38_Witness ==
    /\ Written(1)
    /\ Len(SignedItems(1, "subject")) = 1
    /\ SignedItems(1, "subject")[1].digest.sha256.v
          = [HexDigest(Fill("x")) EXCEPT !.upper = TRUE]
    /\ Len(SignedItems(1, "material")) = 1
    /\ SignedItems(1, "material")[1].name = Some(Str1("e"))
    /\ SignedItems(1, "material")[1].digest.sha256.v = HexDigest(Fill("y"))
    /\ Len(build[1].hashed) = 2


(***************************************************************************)
(* Remote mode without the strict flag (specification SpecMcp).            *)
(***************************************************************************)
\* a call was made
McpStep == ran' # ran \/ mcpLast' # mcpLast
\* the handlers the call ran, in order
RanInCall == SubSeq(ran', Len(ran) + 1, Len(ran'))
\* the call reached the remote adapter, which failed, and then the stub
FellBack == Len(RanInCall) = 2 /\ RanInCall[1][2] = "remote" /\ RanInCall[2][2] = "stub"
ContactedRemote == \E k \in 1..Len(RanInCall) : RanInCall[k][2] = "remote"

====
